---- MODULE Spec2Model ----
(***************************************************************************)
(* UASC-M2M reference implementation: the Registry (graphs, bindings,      *)
(* revocations), the TrustVerifier (certificate chain) and the Interpreter *)
(* (execute pipeline and graph walk), as state machines over the objects'  *)
(* fields.  Python dictionaries are functions whose DOMAIN is the key set; *)
(* a key that a node dictionary does not carry has the value Absent.       *)
(***************************************************************************)
EXTENDS Integers, Sequences, FiniteSets, TLC

VARIABLES graphs, bindings, revocations,
          domain_certs, authority_certs, revoked_authorities,
          handlers, execution_log, now, last

vars == <<graphs, bindings, revocations, domain_certs, authority_certs,
          revoked_authorities, handlers, execution_log, now, last>>

registryVars == <<graphs, bindings, revocations>>
trustVars == <<domain_certs, authority_certs, revoked_authorities>>
interpVars == <<handlers, execution_log>>

(***************************************************************************)
(* Bounds of the model.                                                    *)
(***************************************************************************)
\* the clock runs over 0..MaxTime
MaxTime == 2
\* Registry.revocations is a list that revoke() appends to without limit
MaxRevocations == 1
\* Interpreter.execution_log is a list that execute() appends to without limit
MaxLog == 1

(***************************************************************************)
(* Python values.                                                          *)
(***************************************************************************)
\* Python's None, as dict.get() and Optional results return it
None == [kind |-> "None"]
\* the value standing for a key a node or input dictionary does not carry
Absent == "<absent>"

\* Registry(registry_id=..., domain=..., authority=0x042)
RegistryId == "smart-city-tokyo-001"
RegistryAuthority == 66

\* bind_glyph's range check: 0x8000 <= glyph_code <= 0xFFFE
GlyphRangeLow == 32768
GlyphRangeHigh == 65534

(***************************************************************************)
(* ExecutionGraph: nodes is a dict node_id -> node dict.                   *)
(***************************************************************************)
\* a node dictionary with no keys at all
EmptyNode ==
  [type |-> Absent, next |-> Absent, on_true |-> Absent, on_false |-> Absent,
   on_error |-> Absent, operation |-> Absent,
   expression |-> [kind |-> "absent"], params |-> <<>>, outputs |-> <<>>]

\* insertion order of the node dictionaries (dict iteration order)
NodeOrder ==
  <<"start", "a", "b", "end", "check_priority", "clear_corridor",
    "standard_timing", "success_emergency", "success_standard">>

\* the node ids of a graph in dict iteration order
NodeIdsInOrder(nodes) == SelectSeq(NodeOrder, LAMBDA n : n \in DOMAIN nodes)

RECURSIVE Concat(_)
\* join a sequence of sequences
Concat(ss) == IF ss = <<>> THEN <<>> ELSE Head(ss) \o Concat(Tail(ss))

\* the keys ExecutionGraph.validate follows: for ref_key in ['next', 'on_true', 'on_false']
ValidatedRefKeys == <<"next", "on_true", "on_false">>

\* the message validate appends for a dangling reference of one node
RefError(node_id, target) ==
  [kind |-> "unknown_ref", node |-> node_id, target |-> target]

\* validate's inner loops over one node
NodeRefErrors(nodes, node_id) ==
  Concat([i \in 1..Len(ValidatedRefKeys) |->
            LET target == nodes[node_id][ValidatedRefKeys[i]] IN
            IF target # Absent /\ target \notin DOMAIN nodes
              THEN <<RefError(node_id, target)>>
              ELSE <<>>])

\* ExecutionGraph.validate: the list of errors, empty for a graph it accepts
validate(graph) ==
  (IF "start" \notin DOMAIN graph.nodes
     THEN <<[kind |-> "missing_start", node |-> Absent, target |-> Absent]>>
     ELSE <<>>)
  \o Concat([i \in 1..Len(NodeIdsInOrder(graph.nodes)) |->
               NodeRefErrors(graph.nodes, NodeIdsInOrder(graph.nodes)[i])])
  \o (IF \E n \in DOMAIN graph.nodes : graph.nodes[n].type = "exit"
        THEN <<>>
        ELSE <<[kind |-> "no_exit", node |-> Absent, target |-> Absent]>>)

(***************************************************************************)
(* GlyphBinding and Registry.                                              *)
(***************************************************************************)
\* Registry._sign_binding: the digest of registry_id:glyph_code:graph_id:authority,
\* 32 hex digits, kept as the content it is a digest of (a non-empty sequence)
_sign_binding(glyph_code, graph_id) ==
  <<RegistryId, glyph_code, graph_id, RegistryAuthority>>

\* GlyphBinding.is_valid with the upper end of the window not checked
BindingIsValidNoExpiry(binding) ==
  binding.valid_from <= now

\* GlyphBinding.is_valid: valid_from <= now <= valid_until
BindingIsValid(binding) ==
  binding.valid_from <= now /\ now <= binding.valid_until

\* Registry.get_binding: bindings.get(glyph_code)
get_binding(glyph_code) ==
  IF glyph_code \in DOMAIN bindings THEN bindings[glyph_code] ELSE None

\* glyph_code in self.revocations
is_revoked(glyph_code) ==
  \E i \in 1..Len(revocations) : revocations[i] = glyph_code

\* Registry.lookup with the revocation list not consulted
lookupIgnoringRevocations(glyph_code) ==
  IF glyph_code \notin DOMAIN bindings THEN None
  ELSE IF ~BindingIsValid(bindings[glyph_code]) THEN None
  ELSE IF bindings[glyph_code].graph_id \in DOMAIN graphs
         THEN graphs[bindings[glyph_code].graph_id]
         ELSE None

\* Registry.lookup
lookup(glyph_code) ==
  IF is_revoked(glyph_code) THEN None
  ELSE IF glyph_code \notin DOMAIN bindings THEN None
  ELSE IF ~BindingIsValid(bindings[glyph_code]) THEN None
  ELSE IF bindings[glyph_code].graph_id \in DOMAIN graphs
         THEN graphs[bindings[glyph_code].graph_id]
         ELSE None

\* d.setdefault(k, v): a key that is there keeps its value
DictSetDefault(d, k, v) == IF k \in DOMAIN d THEN d ELSE (k :> v) @@ d

\* a dict with one key set: d[k] = v
DictSet(d, k, v) == (k :> v) @@ d

\* a register_graph that keeps the graph already stored under the graph_id
StoreGraphOnce(graph) == DictSetDefault(graphs, graph.graph_id, graph)

\* register_graph's store: self.graphs[graph.graph_id] = graph
StoreGraph(graph) == DictSet(graphs, graph.graph_id, graph)

\* a lookup that drops the binding it finds expired
BindingsPurgedByLookup(glyph_code) ==
  IF glyph_code \in DOMAIN bindings /\ ~is_revoked(glyph_code)
     /\ ~BindingIsValid(bindings[glyph_code])
    THEN [c \in DOMAIN bindings \ {glyph_code} |-> bindings[c]]
    ELSE bindings

\* self.bindings after Registry.get_binding and Registry.lookup: both only
\* read it (self.bindings.get)
BindingsAfterLookup(glyph_code) == bindings

\* Registry.register_graph
RegisterGraph(graph) ==
  LET errors == validate(graph) IN
  /\ IF errors # <<>>
       THEN /\ graphs' = graphs
            /\ last' = [op |-> "register_graph", graph |-> graph,
                        raised |-> TRUE, errors |-> errors]
       ELSE /\ graphs' = StoreGraph(graph)
            /\ last' = [op |-> "register_graph", graph |-> graph,
                        raised |-> FALSE, errors |-> <<>>]
  /\ UNCHANGED <<bindings, revocations, trustVars, interpVars, now>>

\* the range check of bind_glyph with the upper limit one too high
InGlyphRangeLoose(glyph_code) ==
  GlyphRangeLow <= glyph_code /\ glyph_code <= GlyphRangeHigh + 1

\* bind_glyph's range check
InGlyphRange(glyph_code) ==
  GlyphRangeLow <= glyph_code /\ glyph_code <= GlyphRangeHigh

\* a bind_glyph that does not look whether the graph is registered
GraphIsRegisteredUnchecked(graph_id) == graph_id = graph_id

\* bind_glyph's first check: graph_id in self.graphs
GraphIsRegistered(graph_id) == graph_id \in DOMAIN graphs

\* Registry.bind_glyph
BindGlyph(glyph_code, graph_id, validity_days) ==
  /\ IF ~GraphIsRegistered(graph_id)
       THEN /\ bindings' = bindings
            /\ last' = [op |-> "bind_glyph", code |-> glyph_code,
                        graph_id |-> graph_id, raised |-> TRUE,
                        exc |-> "graph not found"]
       ELSE IF ~InGlyphRange(glyph_code)
       THEN /\ bindings' = bindings
            /\ last' = [op |-> "bind_glyph", code |-> glyph_code,
                        graph_id |-> graph_id, raised |-> TRUE,
                        exc |-> "outside valid range"]
       ELSE /\ bindings' = DictSet(bindings, glyph_code,
                              [glyph_code |-> glyph_code,
                               graph_id |-> graph_id,
                               authority |-> RegistryAuthority,
                               valid_from |-> now,
                               valid_until |-> now + validity_days,
                               signature |-> _sign_binding(glyph_code, graph_id)])
            /\ last' = [op |-> "bind_glyph", code |-> glyph_code,
                        graph_id |-> graph_id, raised |-> FALSE, exc |-> ""]
  /\ UNCHANGED <<graphs, revocations, trustVars, interpVars, now>>

\* Registry.revoke
Revoke(glyph_code) ==
  /\ Len(revocations) < MaxRevocations
  /\ IF glyph_code \notin DOMAIN bindings
       THEN /\ revocations' = revocations
            /\ last' = [op |-> "revoke", code |-> glyph_code, raised |-> TRUE]
       ELSE /\ revocations' = Append(revocations, glyph_code)
            /\ last' = [op |-> "revoke", code |-> glyph_code, raised |-> FALSE]
  /\ UNCHANGED <<graphs, bindings, trustVars, interpVars, now>>

\* a caller's Registry.lookup(glyph_code), its return value kept in last
Lookup(glyph_code) ==
  /\ last' = [op |-> "lookup", code |-> glyph_code, result |-> lookup(glyph_code)]
  /\ bindings' = BindingsAfterLookup(glyph_code)
  /\ UNCHANGED <<graphs, revocations, trustVars, interpVars, now>>

\* datetime.utcnow() moves on between calls
Tick ==
  /\ now < MaxTime
  /\ now' = now + 1
  /\ last' = [op |-> "tick"]
  /\ UNCHANGED <<registryVars, trustVars, interpVars>>

(***************************************************************************)
(* Certificate and TrustVerifier.                                          *)
(***************************************************************************)
\* an is_valid that forgets the start of the window
CertIsValidNoStart(cert) == now <= cert.valid_until

\* Certificate.is_valid: valid_from <= now <= valid_until
CertIsValid(cert) == cert.valid_from <= now /\ now <= cert.valid_until

\* Certificate.is_expired: now > valid_until
CertIsExpired(cert) == now > cert.valid_until

\* VerificationResult(valid=False, reason=...); args are the values an
\* f-string reason is formatted with
Invalid(text, args) ==
  [valid |-> FALSE, reason |-> [text |-> text, args |-> args],
   authority_name |-> "", chain_length |-> 0]

\* TrustVerifier.verify with the domain certificate looked up before the
\* authority certificate
verifyDomainFirst(domain, authority, binding_signature) ==
  IF <<domain, authority>> \in revoked_authorities
    THEN Invalid("Authority has been revoked", <<>>)
  ELSE IF domain \notin DOMAIN domain_certs
    THEN Invalid("Unknown domain", <<domain>>)
  ELSE IF ~CertIsValid(domain_certs[domain])
    THEN Invalid("Domain certificate expired or not valid", <<>>)
  ELSE IF <<domain, authority>> \notin DOMAIN authority_certs
    THEN Invalid("Unknown authority", <<domain, authority>>)
  ELSE IF ~CertIsValid(authority_certs[<<domain, authority>>])
    THEN IF CertIsExpired(authority_certs[<<domain, authority>>])
           THEN Invalid("Authority certificate expired", <<>>)
           ELSE Invalid("Authority certificate not yet valid", <<>>)
  ELSE IF authority_certs[<<domain, authority>>].issuer_id
            # domain_certs[domain].authority_id
    THEN Invalid("Authority not certified by domain authority", <<>>)
  ELSE IF domain_certs[domain].issuer_id # 0
    THEN Invalid("Domain not certified by root authority", <<>>)
  ELSE IF binding_signature = <<>>
    THEN Invalid("Glyph binding signature missing", <<>>)
  ELSE [valid |-> TRUE, reason |-> [text |-> "Trust chain verified", args |-> <<>>],
        authority_name |-> authority_certs[<<domain, authority>>].name,
        chain_length |-> 2]

\* TrustVerifier.verify with the revocation check after the certificate
\* lookups instead of before them
verifyCertificatesFirst(domain, authority, binding_signature) ==
  IF <<domain, authority>> \notin DOMAIN authority_certs
    THEN Invalid("Unknown authority", <<domain, authority>>)
  ELSE IF ~CertIsValid(authority_certs[<<domain, authority>>])
    THEN IF CertIsExpired(authority_certs[<<domain, authority>>])
           THEN Invalid("Authority certificate expired", <<>>)
           ELSE Invalid("Authority certificate not yet valid", <<>>)
  ELSE IF domain \notin DOMAIN domain_certs
    THEN Invalid("Unknown domain", <<domain>>)
  ELSE IF ~CertIsValid(domain_certs[domain])
    THEN Invalid("Domain certificate expired or not valid", <<>>)
  ELSE IF <<domain, authority>> \in revoked_authorities
    THEN Invalid("Authority has been revoked", <<>>)
  ELSE IF authority_certs[<<domain, authority>>].issuer_id
            # domain_certs[domain].authority_id
    THEN Invalid("Authority not certified by domain authority", <<>>)
  ELSE IF domain_certs[domain].issuer_id # 0
    THEN Invalid("Domain not certified by root authority", <<>>)
  ELSE IF binding_signature = <<>>
    THEN Invalid("Glyph binding signature missing", <<>>)
  ELSE [valid |-> TRUE, reason |-> [text |-> "Trust chain verified", args |-> <<>>],
        authority_name |-> authority_certs[<<domain, authority>>].name,
        chain_length |-> 2]

\* TrustVerifier.verify
verify(domain, authority, binding_signature) ==
  IF <<domain, authority>> \in revoked_authorities
    THEN Invalid("Authority has been revoked", <<>>)
  ELSE IF <<domain, authority>> \notin DOMAIN authority_certs
    THEN Invalid("Unknown authority", <<domain, authority>>)
  ELSE IF ~CertIsValid(authority_certs[<<domain, authority>>])
    THEN IF CertIsExpired(authority_certs[<<domain, authority>>])
           THEN Invalid("Authority certificate expired", <<>>)
           ELSE Invalid("Authority certificate not yet valid", <<>>)
  ELSE IF domain \notin DOMAIN domain_certs
    THEN Invalid("Unknown domain", <<domain>>)
  ELSE IF ~CertIsValid(domain_certs[domain])
    THEN Invalid("Domain certificate expired or not valid", <<>>)
  ELSE IF authority_certs[<<domain, authority>>].issuer_id
            # domain_certs[domain].authority_id
    THEN Invalid("Authority not certified by domain authority", <<>>)
  ELSE IF domain_certs[domain].issuer_id # 0
    THEN Invalid("Domain not certified by root authority", <<>>)
  ELSE IF binding_signature = <<>>
    THEN Invalid("Glyph binding signature missing", <<>>)
  ELSE [valid |-> TRUE, reason |-> [text |-> "Trust chain verified", args |-> <<>>],
        authority_name |-> authority_certs[<<domain, authority>>].name,
        chain_length |-> 2]

\* TrustVerifier.add_domain_certificate
AddDomainCertificate(cert) ==
  /\ domain_certs' = DictSet(domain_certs, cert.domain, cert)
  /\ last' = [op |-> "add_domain_certificate"]
  /\ UNCHANGED <<registryVars, authority_certs, revoked_authorities, interpVars, now>>

\* TrustVerifier.add_authority_certificate
AddAuthorityCertificate(cert) ==
  /\ authority_certs' =
       DictSet(authority_certs, <<cert.domain, cert.authority_id>>, cert)
  /\ last' = [op |-> "add_authority_certificate"]
  /\ UNCHANGED <<registryVars, domain_certs, revoked_authorities, interpVars, now>>

\* TrustVerifier.revoke_authority
RevokeAuthority(domain, authority_id) ==
  /\ revoked_authorities' = revoked_authorities \cup {<<domain, authority_id>>}
  /\ last' = [op |-> "revoke_authority"]
  /\ UNCHANGED <<registryVars, domain_certs, authority_certs, interpVars, now>>

\* a caller's TrustVerifier.verify(...), its return value kept in last
Verify(domain, authority, binding_signature) ==
  /\ last' = [op |-> "verify", domain |-> domain, authority |-> authority,
              signature |-> binding_signature,
              result |-> verify(domain, authority, binding_signature)]
  /\ UNCHANGED <<registryVars, trustVars, interpVars, now>>

(***************************************************************************)
(* Interpreter.  Python values carry their type: [t |-> "int", v |-> 5].   *)
(* A string of a params or outputs dict is kept as the sequence of its     *)
(* pieces, split at the dots: 'inputs.zone' is <<"inputs", ".", "zone">>.  *)
(* A condition expression is 'true', 'false' or a comparison of one name   *)
(* with an integer literal.                                                *)
(***************************************************************************)
\* a limit of the walk that is one too high
max_iterations_plus_one == 100 + 1

\* self.max_iterations = 100
max_iterations == 100

PyInt(n) == [t |-> "int", v |-> n]
PyBool(b) == [t |-> "bool", v |-> b]
PyStr(x) == [t |-> "str", v |-> x]
PyDict(d) == [t |-> "dict", v |-> d]
PyNone == [t |-> "None", v |-> 0]

\* a string value of a params or outputs dict, as the sequence of its
\* pieces: the dots, and the stretches of text between them
StrValue(pieces) == [kind |-> "str", pieces |-> pieces]
\* the string 'inputs.<name>'
InputRef(name) == StrValue(<<"inputs", ".", name>>)
\* a string '<node>.<key>'
NodeRef(node, key) == StrValue(<<node, ".", key>>)
\* a string with no dot in it
Plain(x) == StrValue(<<x>>)
\* a value that is no string (True, False, a number): x is the Python value
Literal(x) == [kind |-> "literal", value |-> x]

\* ExecutionResult.error and exception texts: the text and the values
\* formatted into it; NoError is error=None
Err(text, args) == [text |-> text, args |-> args]
NoError == Err("", <<>>)

\* ExecutionResult(status, outputs, node_trace, error); execution_time_ms is
\* a clock reading and is left out
ExecutionResult(status, outputs, node_trace, error) ==
  [status |-> status, outputs |-> outputs, node_trace |-> node_trace,
   error |-> error]

\* no ExecutionResult at all: the call ended in the given exception
NoResult(exception) == ExecutionResult("", <<>>, <<>>, exception)

\* Interpreter._reject
_reject(reason) == ExecutionResult("rejected", <<>>, <<>>, reason)

RECURSIVE ApplyInputs(_, _)
\* the loop of _build_context over graph.inputs: the parameters, or the
\* exception that ends it (KeyError for an input declaration without 'name')
ApplyInputs(inputs, parameters) ==
  IF inputs = <<>> THEN [exc |-> "", error |-> NoError, parameters |-> parameters]
  ELSE LET input_def == Head(inputs) IN
    IF input_def.name = Absent
      THEN [exc |-> "KeyError", error |-> Err("'name'", <<>>), parameters |-> parameters]
    ELSE IF input_def.name \in DOMAIN parameters
      THEN ApplyInputs(Tail(inputs), parameters)
    ELSE IF input_def.has_default
      THEN ApplyInputs(Tail(inputs),
                       DictSet(parameters, input_def.name, input_def.default))
    ELSE IF input_def.required
      THEN [exc |-> "ValueError",
            error |-> Err("Missing required parameter", <<input_def.name>>),
            parameters |-> parameters]
    ELSE ApplyInputs(Tail(inputs), parameters)

\* an ExecutionContext whose parameters dict is one object shared by all
\* instances: it still holds what the previous execute call put into it
SharedContextParameters ==
  IF last.op = "execute" THEN last.frame.context ELSE <<>>

\* ExecutionContext().parameters: field(default_factory=dict), a new empty
\* dict for every instance
NewContextParameters == <<>>

\* Interpreter._build_context: a new ExecutionContext, frame.context put
\* into its parameters, then defaults and the required-input check
_build_context(frame, graph) ==
  ApplyInputs(graph.inputs, frame.context @@ NewContextParameters)

\* d.get(name) for a name given in pieces: a name with a dot in it (more
\* than one piece) is the name of no parameter, node or result key
GetByPieces(d, name, default) ==
  IF Len(name) = 1 /\ name[1] \in DOMAIN d THEN d[name[1]] ELSE default

\* _resolve_params taking every string with a dot for '<node>.<key>', the
\* ones that start with 'inputs.' too
ResolveValueNodeFirst(value, parameters, node_results) ==
  IF value.kind # "str" THEN value.value
  ELSE
    LET p == value.pieces IN
    IF \E i \in 1..Len(p) : p[i] = "."
      THEN LET dot == CHOOSE i \in 1..Len(p) :
                        p[i] = "." /\ \A j \in 1..(i - 1) : p[j] # "."
               node_result == GetByPieces(node_results, SubSeq(p, 1, dot - 1),
                                          PyDict(<<>>))
           IN IF node_result.t = "dict"
                THEN GetByPieces(node_result.v, SubSeq(p, dot + 1, Len(p)), PyNone)
                ELSE node_result
    ELSE IF p = <<>> THEN PyStr("") ELSE PyStr(p[1])

\* one value of _resolve_params: isinstance(value, str), then
\* value.startswith('inputs.'), then '.' in value with value.split('.', 1)
ResolveValue(value, parameters, node_results) ==
  IF value.kind # "str" THEN value.value
  ELSE
    LET p == value.pieces IN
    IF Len(p) >= 2 /\ p[1] = "inputs" /\ p[2] = "."
      THEN GetByPieces(parameters, SubSeq(p, 3, Len(p)), PyNone)
    ELSE IF \E i \in 1..Len(p) : p[i] = "."
      THEN LET dot == CHOOSE i \in 1..Len(p) :
                        p[i] = "." /\ \A j \in 1..(i - 1) : p[j] # "."
               node_result == GetByPieces(node_results, SubSeq(p, 1, dot - 1),
                                          PyDict(<<>>))
           IN IF node_result.t = "dict"
                THEN GetByPieces(node_result.v, SubSeq(p, dot + 1, Len(p)), PyNone)
                ELSE node_result
    ELSE IF p = <<>> THEN PyStr("") ELSE PyStr(p[1])

\* Interpreter._resolve_params, which _resolve_outputs calls as it is
_resolve_params(params, parameters, node_results) ==
  [k \in DOMAIN params |-> ResolveValue(params[k], parameters, node_results)]

\* _evaluate_condition reading the comparison as strictly greater
_evaluate_condition_strict(node, parameters) ==
  LET expression == node.expression IN
  CASE expression.kind \in {"absent", "true"} -> TRUE
    [] expression.kind = "false" -> FALSE
    [] OTHER ->
         /\ expression.name \in DOMAIN parameters
         /\ parameters[expression.name].t = "int"
         /\ parameters[expression.name].v > expression.rhs

\* Interpreter._evaluate_condition: a name that eval cannot resolve, or a
\* value that does not compare with an integer, makes eval raise and the
\* condition False
_evaluate_condition(node, parameters) ==
  LET expression == node.expression IN
  CASE expression.kind \in {"absent", "true"} -> TRUE
    [] expression.kind = "false" -> FALSE
    [] OTHER ->
         /\ expression.name \in DOMAIN parameters
         /\ parameters[expression.name].t = "int"
         /\ parameters[expression.name].v >= expression.rhs

\* how often the handler of an operation was invoked so far in this walk
Invocations(calls, operation) ==
  Cardinality({ i \in 1..Len(calls) : calls[i].operation = operation })

\* ActionRegistry.execute answering None for an operation without a handler
\* instead of raising
ActionExecuteLenient(operation, calls) ==
  IF operation \notin DOMAIN handlers
    THEN [raised |-> FALSE, invoked |-> FALSE, value |-> PyNone, error |-> NoError]
  ELSE IF handlers[operation] = "raises"
         \/ (handlers[operation] = "raises_first" /\ Invocations(calls, operation) = 0)
    THEN [raised |-> TRUE, invoked |-> TRUE, value |-> PyNone,
          error |-> Err("handler error", <<operation>>)]
  ELSE [raised |-> FALSE, invoked |-> TRUE,
        value |-> IF handlers[operation] = "returns_scalar"
                    THEN PyInt(7) ELSE PyDict([ok |-> PyBool(TRUE)]),
        error |-> NoError]

\* ActionRegistry.execute: the handler's return value or the exception;
\* invoked tells whether a handler was called at all. A handler returns a
\* dict, returns a value that is no dict, raises, or raises on its first
\* invocation of a walk only.
ActionExecute(operation, calls) ==
  IF operation \notin DOMAIN handlers
    THEN [raised |-> TRUE, invoked |-> FALSE, value |-> PyNone,
          error |-> Err("Unknown operation", <<operation>>)]
  ELSE IF handlers[operation] = "raises"
         \/ (handlers[operation] = "raises_first" /\ Invocations(calls, operation) = 0)
    THEN [raised |-> TRUE, invoked |-> TRUE, value |-> PyNone,
          error |-> Err("handler error", <<operation>>)]
  ELSE [raised |-> FALSE, invoked |-> TRUE,
        value |-> IF handlers[operation] = "returns_scalar"
                    THEN PyInt(7) ELSE PyDict([ok |-> PyBool(TRUE)]),
        error |-> NoError]

\* a handler that raised is called a second time with the same params
RecordCallWithRetry(calls, node_id, operation, params, raised) ==
  LET call == [node |-> node_id, operation |-> operation, params |-> params,
               raised |-> raised]
  IN IF raised THEN calls \o <<call, call>> ELSE Append(calls, call)

\* self.handlers[operation](params), called once from _execute_action: the
\* invocation joins the list of the walk's handler invocations
RecordCall(calls, node_id, operation, params, raised) ==
  Append(calls, [node |-> node_id, operation |-> operation, params |-> params,
                 raised |-> raised])

\* node.get(key, 'end')
GetOrEnd(node, key) == IF node[key] = Absent THEN "end" ELSE node[key]

\* the locals of _execute_graph: status is "running" inside the loop,
\* "completed" or "failed" once it has returned a dict, "raised" once an
\* exception has left it; calls lists the handler invocations made
WalkState(status, current_node, trace, node_results, calls, outputs, error) ==
  [status |-> status, current_node |-> current_node, trace |-> trace,
   node_results |-> node_results, calls |-> calls, outputs |-> outputs,
   error |-> error]

\* one pass of the body of 'for iteration in range(self.max_iterations)';
\* a pass after the function has returned or raised changes nothing
LoopPass(graph, parameters, w) ==
  IF w.status # "running" THEN w
  ELSE IF w.current_node \notin DOMAIN graph.nodes
    THEN [w EXCEPT !.status = "failed",
                   !.error = Err("Unknown node", <<w.current_node>>)]
  ELSE
    LET node == graph.nodes[w.current_node]
        trace2 == Append(w.trace, w.current_node)
        node_type == IF node.type = Absent THEN "action" ELSE node.type
    IN
    CASE node_type = "entry" ->
           [w EXCEPT !.trace = trace2, !.current_node = GetOrEnd(node, "next")]
      [] node_type = "exit" ->
           [w EXCEPT !.trace = trace2, !.status = "completed",
                     !.outputs = _resolve_params(node.outputs, parameters,
                                                 w.node_results)]
      [] node_type = "action" ->
           LET operation == IF node.operation = Absent THEN "" ELSE node.operation
               params == _resolve_params(node.params, parameters, w.node_results)
               outcome == ActionExecute(operation, w.calls)
               calls2 == IF outcome.invoked
                           THEN RecordCall(w.calls, w.current_node, operation,
                                           params, outcome.raised)
                           ELSE w.calls
           IN IF outcome.raised
                THEN IF node.on_error # Absent
                       THEN [w EXCEPT !.trace = trace2, !.calls = calls2,
                                      !.current_node = node.on_error]
                       ELSE [w EXCEPT !.trace = trace2, !.calls = calls2,
                                      !.status = "raised", !.error = outcome.error]
                ELSE [w EXCEPT !.trace = trace2, !.calls = calls2,
                               !.node_results = DictSet(w.node_results,
                                                        w.current_node, outcome.value),
                               !.current_node = GetOrEnd(node, "next")]
      [] node_type = "condition" ->
           [w EXCEPT !.trace = trace2,
                     !.current_node = IF _evaluate_condition(node, parameters)
                                        THEN GetOrEnd(node, "on_true")
                                        ELSE GetOrEnd(node, "on_false")]
      [] OTHER ->
           [w EXCEPT !.trace = trace2, !.status = "failed",
                     !.error = Err("Unknown node type", <<node_type>>)]

RECURSIVE Passes(_, _, _, _)
\* n passes of the loop body, one after the other: the first half of them,
\* then, unless the function has returned or raised by then, the rest
Passes(graph, parameters, w, n) ==
  IF n = 0 THEN w
  ELSE IF n = 1 THEN LoopPass(graph, parameters, w)
  ELSE LET half == Passes(graph, parameters, w, n \div 2) IN
       IF half.status = "running"
         THEN Passes(graph, parameters, half, n - (n \div 2))
         ELSE half

\* Interpreter._execute_graph: the loop from current_node = 'start' with an
\* empty trace, and the 'Max iterations exceeded' dict after the loop
_execute_graph(graph, parameters) ==
  LET w == Passes(graph, parameters,
                  WalkState("running", "start", <<>>, <<>>, <<>>, <<>>, NoError),
                  max_iterations)
  IN IF w.status = "running"
       THEN [w EXCEPT !.status = "failed",
                      !.error = Err("Max iterations exceeded - possible infinite loop",
                                    <<>>)]
       ELSE w

\* stages 1 to 3 of execute with the trust stage left out
RejectionWithoutTrust(frame) ==
  IF get_binding(frame.glyph_code) = None
    THEN Err("No binding for glyph", <<frame.glyph_code>>)
  ELSE IF lookup(frame.glyph_code) = None
    THEN Err("Execution graph not found or revoked", <<>>)
  ELSE NoError

\* stages 1 to 3 of execute with the graph resolved before trust is verified
RejectionGraphFirst(frame) ==
  IF get_binding(frame.glyph_code) = None
    THEN Err("No binding for glyph", <<frame.glyph_code>>)
  ELSE IF lookup(frame.glyph_code) = None
    THEN Err("Execution graph not found or revoked", <<>>)
  ELSE IF ~verify(frame.domain, frame.authority,
                  get_binding(frame.glyph_code).signature).valid
    THEN Err("Trust verification failed",
             <<verify(frame.domain, frame.authority,
                      get_binding(frame.glyph_code).signature).reason>>)
  ELSE NoError

\* stages 1 to 3 of execute (lookup binding, verify trust, resolve graph):
\* the reason of the rejection, or NoError when all three pass
Rejection(frame) ==
  IF get_binding(frame.glyph_code) = None
    THEN Err("No binding for glyph", <<frame.glyph_code>>)
  ELSE IF ~verify(frame.domain, frame.authority,
                  get_binding(frame.glyph_code).signature).valid
    THEN Err("Trust verification failed",
             <<verify(frame.domain, frame.authority,
                      get_binding(frame.glyph_code).signature).reason>>)
  ELSE IF lookup(frame.glyph_code) = None
    THEN Err("Execution graph not found or revoked", <<>>)
  ELSE NoError

\* what one execute call comes to: the ExecutionResult it returns, or the
\* exception that escapes it; the handler invocations it made and the nodes
\* it visited; whether it reached _log_execution; context.node_results as the
\* walk left it
Outcome(escaped, exc, result, calls, visited, logged, authority_name, node_results) ==
  [escaped |-> escaped, exc |-> exc, result |-> result, calls |-> calls,
   visited |-> visited, logged |-> logged, authority_name |-> authority_name,
   node_results |-> node_results]

\* Interpreter.execute
execute(frame) ==
  LET rejection == Rejection(frame) IN
  IF rejection.text # ""
    THEN Outcome(FALSE, "", _reject(rejection), <<>>, <<>>, FALSE, "", <<>>)
  ELSE
    LET graph == lookup(frame.glyph_code)
        trust_result == verify(frame.domain, frame.authority,
                               get_binding(frame.glyph_code).signature)
        context == _build_context(frame, graph)
    IN
    IF context.exc = "ValueError"
      THEN Outcome(FALSE, "", _reject(context.error), <<>>, <<>>, FALSE, "", <<>>)
    ELSE IF context.exc # ""
      THEN Outcome(TRUE, context.exc, NoResult(context.error), <<>>, <<>>, FALSE, "",
                   <<>>)
    ELSE
      LET walk == _execute_graph(graph, context.parameters) IN
      IF walk.status = "raised"
        THEN Outcome(FALSE, "",
                     ExecutionResult("failed", <<>>, <<>>, walk.error),
                     walk.calls, walk.trace, FALSE, "", walk.node_results)
        ELSE Outcome(FALSE, "",
                     ExecutionResult(IF walk.status = "completed"
                                       THEN "success" ELSE "failed",
                                     walk.outputs, walk.trace, walk.error),
                     walk.calls, walk.trace, TRUE, trust_result.authority_name,
                     walk.node_results)

\* the dict _log_execution appends (timestamp, token and duration left out)
LogEntry(frame, result, authority_name) ==
  [glyph_code |-> frame.glyph_code, authority |-> authority_name,
   status |-> result.status, node_count |-> Len(result.node_trace),
   error |-> result.error]

\* a caller's Interpreter.execute(frame); last keeps what came of it
Execute(frame) ==
  LET outcome == execute(frame) IN
  /\ outcome.logged => Len(execution_log) < MaxLog
  /\ execution_log' =
       IF outcome.logged
         THEN Append(execution_log,
                     LogEntry(frame, outcome.result, outcome.authority_name))
         ELSE execution_log
  /\ last' = [op |-> "execute", frame |-> frame, escaped |-> outcome.escaped,
              exc |-> outcome.exc, result |-> outcome.result,
              calls |-> outcome.calls, visited |-> outcome.visited,
              logged |-> outcome.logged, node_results |-> outcome.node_results]
  /\ bindings' = BindingsAfterLookup(frame.glyph_code)
  /\ UNCHANGED <<graphs, revocations, trustVars, handlers, now>>

\* Interpreter.clear_execution_log
ClearExecutionLog ==
  /\ execution_log' = <<>>
  /\ last' = [op |-> "clear_execution_log"]
  /\ UNCHANGED <<registryVars, trustVars, handlers, now>>

\* ActionRegistry.register
RegisterHandler(operation, handler) ==
  /\ handlers' = DictSet(handlers, operation, handler)
  /\ last' = [op |-> "register"]
  /\ UNCHANGED <<registryVars, trustVars, execution_log, now>>

(***************************************************************************)
(* Initial state: Registry(...), TrustVerifier(), ActionRegistry() and     *)
(* Interpreter(...) as their constructors leave them.                      *)
(***************************************************************************)
Init ==
  /\ graphs = <<>>
  /\ bindings = <<>>
  /\ revocations = <<>>
  /\ domain_certs = <<>>
  /\ authority_certs = <<>>
  /\ revoked_authorities = {}
  /\ handlers = <<>>
  /\ execution_log = <<>>
  /\ now = 0
  /\ last = [op |-> "init"]

(***************************************************************************)
(* Graphs handed to register_graph.                                        *)
(***************************************************************************)
\* the nodes start -> a -> end with the given keys on a, start possibly left out
ValidationNodes(hasStart, startNext, aType, aRef, aFalse, aError, endType) ==
  LET full == [n \in {"start", "a", "end"} |->
                 CASE n = "start" ->
                        [EmptyNode EXCEPT !.type = "entry", !.next = startNext]
                   [] n = "a" ->
                        IF aType = "action"
                          THEN [EmptyNode EXCEPT !.type = "action",
                                  !.operation = "act", !.next = aRef,
                                  !.on_false = aFalse, !.on_error = aError]
                          ELSE [EmptyNode EXCEPT !.type = "condition",
                                  !.expression = [kind |-> "true"], !.on_true = aRef,
                                  !.on_false = aFalse, !.on_error = aError]
                   [] n = "end" -> [EmptyNode EXCEPT !.type = endType]]
  IN IF hasStart THEN full ELSE [n \in {"a", "end"} |-> full[n]]

\* graphs with and without each structural violation, alone and combined
ValidationCatalog ==
  { [graph_id |-> "g1", inputs |-> <<>>,
     nodes |-> ValidationNodes(hs, sn, at, ar, af, ae, et)] :
      hs \in BOOLEAN, sn \in {"a", "ghost"}, at \in {"action", "condition"},
      ar \in {"end", "ghost"}, af \in {Absent, "end", "ghost"},
      ae \in {Absent, "end", "ghost"}, et \in {"exit", "action"} }

\* start -> a (action 'act') -> end
LinearGraph(graph_id) ==
  [graph_id |-> graph_id, inputs |-> <<>>,
   nodes |-> ValidationNodes(TRUE, "a", "action", "end", Absent, Absent, "exit")]

\* start -> a (condition) -> end on either branch
BranchGraph(graph_id) ==
  [graph_id |-> graph_id, inputs |-> <<>>,
   nodes |-> ValidationNodes(TRUE, "a", "condition", "end", "end", Absent, "exit")]

\* a graph with no exit node
NoExitGraph(graph_id) ==
  [graph_id |-> graph_id, inputs |-> <<>>,
   nodes |-> ValidationNodes(TRUE, "a", "action", "end", Absent, Absent, "action")]

\* the graphs the registry scenarios register
RegistryCatalog ==
  {LinearGraph("g1"), BranchGraph("g1"), LinearGraph("g2"), NoExitGraph("g2")}

\* glyph codes around both ends of the bindable range
Codes == {32767, 32768, 65534, 65535}
\* graph ids passed to bind_glyph ("g3" is never registered)
BindGraphIds == {"g1", "g2", "g3"}
\* validity_days passed to bind_glyph, in clock ticks
ValidityDays == {1}

(***************************************************************************)
(* Specifications.                                                         *)
(***************************************************************************)
\* register_graph alone, over every graph of ValidationCatalog
NextGraphs == \E g \in ValidationCatalog : RegisterGraph(g)

SpecGraphs == Init /\ [][NextGraphs]_vars

\* a time after every tick of the clock
FarFuture == MaxTime + 1
\* validity windows: valid throughout, expiring after time 0, not valid before time 1
CertWindows == {<<0 - 1, FarFuture>>, <<0 - 1, 0>>, <<1, FarFuture>>}

\* Certificate(...) with the fields verify reads
Cert(authority_id, domain, name, window, issuer_id) ==
  [authority_id |-> authority_id, domain |-> domain, name |-> name,
   valid_from |-> window[1], valid_until |-> window[2], issuer_id |-> issuer_id]

\* the domain and the authorities of the frames: 0x42 is certified, 0x99 never is
TrustDomain == 1
CertifiedAuthority == 66
\* the authorities frames name: 0x42 and 0x99
FrameAuthorities == {66, 153}
UncertifiedAuthority == CHOOSE a \in FrameAuthorities : a # CertifiedAuthority

\* domain certificates handed to add_domain_certificate
DomainCertInputs ==
  { Cert(aid, TrustDomain, "International Smart City Consortium", w, iss) :
      aid \in {0, 5}, w \in CertWindows, iss \in {0, 9} }

\* authority certificates handed to add_authority_certificate
AuthorityCertInputs ==
  { Cert(CertifiedAuthority, TrustDomain, "City of Tokyo Traffic Authority", w, iss) :
      w \in CertWindows, iss \in {0, 5} }

\* binding signatures handed to verify: none, and one made by _sign_binding
SignatureInputs == {<<>>, _sign_binding(GlyphRangeLow, "g1")}

\* the TrustVerifier's operations
NextTrust ==
  \/ \E cert \in DomainCertInputs : AddDomainCertificate(cert)
  \/ \E cert \in AuthorityCertInputs : AddAuthorityCertificate(cert)
  \/ \E a \in {CertifiedAuthority, UncertifiedAuthority} : RevokeAuthority(TrustDomain, a)
  \/ \E a \in {CertifiedAuthority, UncertifiedAuthority}, sig \in SignatureInputs :
       Verify(TrustDomain, a, sig)
  \/ Tick

SpecTrust == Init /\ [][NextTrust]_vars

\* an input declaration {'name': ..., 'required': True}
RequiredInput(name) ==
  [name |-> name, has_default |-> FALSE, default |-> PyNone, required |-> TRUE]

\* an input declaration {'name': ..., 'default': ...}
DefaultInput(name, default) ==
  [name |-> name, has_default |-> TRUE, default |-> default, required |-> FALSE]

\* an input declaration with no 'name' key: {'type': 'integer', 'required': True}
NamelessInput ==
  [name |-> Absent, has_default |-> FALSE, default |-> PyNone, required |-> TRUE]

\* the nodes start -> a -> end, a and end as given
Nodes3(a, end) ==
  [n \in {"start", "a", "end"} |->
     CASE n = "start" -> [EmptyNode EXCEPT !.type = "entry", !.next = "a"]
       [] n = "a" -> a
       [] n = "end" -> end]

\* the nodes start -> a, b, end
Nodes4(a, b, end) ==
  [n \in {"start", "a", "b", "end"} |->
     CASE n = "start" -> [EmptyNode EXCEPT !.type = "entry", !.next = "a"]
       [] n = "a" -> a
       [] n = "b" -> b
       [] n = "end" -> end]

\* an exit node with outputs {'done': 'a.ok', 'zone': 'inputs.zone'}
ExitNode ==
  [EmptyNode EXCEPT !.type = "exit",
     !.outputs = [done |-> NodeRef("a", "ok"), zone |-> InputRef("zone")]]

\* an action node of operation 'act' with params {'zone': 'inputs.zone'}
ActNode ==
  [EmptyNode EXCEPT !.type = "action", !.operation = "act",
     !.params = [zone |-> InputRef("zone")]]

\* start -> a (action) -> end, inputs: zone required, priority defaulting to 5
RequiredInputGraph(graph_id) ==
  [graph_id |-> graph_id,
   inputs |-> <<RequiredInput("zone"), DefaultInput("priority", PyInt(5))>>,
   nodes |-> Nodes3([ActNode EXCEPT !.next = "end"], ExitNode)]

\* the same graph with an input declaration that has no 'name'
NamelessInputGraph(graph_id) ==
  [graph_id |-> graph_id,
   inputs |-> <<DefaultInput("priority", PyInt(5)), NamelessInput>>,
   nodes |-> Nodes3([ActNode EXCEPT !.next = "end"], ExitNode)]

\* a raises: on_error leads to b, a second action, and on to end
ErrorRouteGraph(graph_id) ==
  [graph_id |-> graph_id, inputs |-> <<>>,
   nodes |-> Nodes4([ActNode EXCEPT !.next = "end", !.on_error = "b"],
                    [ActNode EXCEPT !.next = "end"], ExitNode)]

\* a's on_error leads back to a
ErrorLoopGraph(graph_id) ==
  [graph_id |-> graph_id, inputs |-> <<>>,
   nodes |-> Nodes3([ActNode EXCEPT !.next = "end", !.on_error = "a"], ExitNode)]

\* a's next leads back to start; the exit is never reached
NextLoopGraph(graph_id) ==
  [graph_id |-> graph_id, inputs |-> <<>>,
   nodes |-> Nodes3([ActNode EXCEPT !.next = "start"], ExitNode)]

\* a condition that is false and whose on_false leads back to itself
ConditionLoopGraph(graph_id) ==
  [graph_id |-> graph_id, inputs |-> <<>>,
   nodes |-> Nodes3([EmptyNode EXCEPT !.type = "condition",
                       !.expression = [kind |-> "false"],
                       !.on_true = "end", !.on_false = "a"], ExitNode)]

\* a node of a type the walk does not know
UnknownTypeGraph(graph_id) ==
  [graph_id |-> graph_id, inputs |-> <<>>,
   nodes |-> Nodes3([EmptyNode EXCEPT !.type = "loop", !.next = "end"], ExitNode)]

\* an action whose on_error names no node (validate does not look at on_error)
DanglingErrorGraph(graph_id) ==
  [graph_id |-> graph_id, inputs |-> <<>>,
   nodes |-> Nodes3([ActNode EXCEPT !.next = "end", !.on_error = "ghost"], ExitNode)]

\* an action with neither type nor next, in a graph whose exit is not called 'end'
DefaultEndGraph(graph_id) ==
  [graph_id |-> graph_id, inputs |-> <<>>,
   nodes |-> [n \in {"start", "a", "b"} |->
                CASE n = "start" -> [EmptyNode EXCEPT !.type = "entry", !.next = "a"]
                  [] n = "a" -> [EmptyNode EXCEPT !.operation = "act"]
                  [] n = "b" -> ExitNode]]

\* an action that declares no next, in a graph whose exit is called 'end'
ImplicitEndGraph(graph_id) ==
  [graph_id |-> graph_id, inputs |-> <<>>,
   nodes |-> Nodes3(ActNode, ExitNode)]

\* the graphs the walk scenarios register
WalkCatalog ==
  {RequiredInputGraph("g1"), NamelessInputGraph("g1"), ErrorRouteGraph("g1"),
   ErrorLoopGraph("g1"), NextLoopGraph("g1"), ConditionLoopGraph("g1"),
   UnknownTypeGraph("g1"), DanglingErrorGraph("g1"), DefaultEndGraph("g1"),
   ImplicitEndGraph("g1")}

\* the graphs the pipeline scenarios register
PipelineCatalog == {RequiredInputGraph("g1"), ErrorRouteGraph("g1")}

\* GlyphFrame(domain, authority, glyph_code, context)
Frame(domain, authority, glyph_code, context) ==
  [domain |-> domain, authority |-> authority, glyph_code |-> glyph_code,
   context |-> context]

\* frames of the certified and of the uncertified authority, for the bound
\* code and for a code never bound, with and without the 'zone' parameter
PipelineFrames ==
  { Frame(TrustDomain, a, c, ctx) :
      a \in {CertifiedAuthority, UncertifiedAuthority},
      c \in {GlyphRangeLow, GlyphRangeHigh},
      ctx \in {<<>>, [zone |-> PyInt(3)]} }

\* the frames of the walk scenarios
WalkFrames ==
  { Frame(TrustDomain, CertifiedAuthority, GlyphRangeLow, ctx) :
      ctx \in {<<>>, [zone |-> PyInt(3)]} }

\* the certificates create_mock_trust_chain builds
MockDomainCert ==
  Cert(0, TrustDomain, "International Smart City Consortium", <<0 - 1, FarFuture>>, 0)
MockAuthorityCert ==
  Cert(CertifiedAuthority, TrustDomain, "City of Tokyo Traffic Authority",
       <<0 - 1, FarFuture>>, 0)

\* the operations around Interpreter.execute, on a clock that stands still:
\* a binding past its window comes from a negative validity_days
Next ==
  \/ \E g \in PipelineCatalog : RegisterGraph(g)
  \/ \E d \in {1, 0 - 1} : BindGlyph(GlyphRangeLow, "g1", d)
  \/ Revoke(GlyphRangeLow)
  \/ AddDomainCertificate(MockDomainCert)
  \/ AddAuthorityCertificate(MockAuthorityCert)
  \/ RevokeAuthority(TrustDomain, CertifiedAuthority)
  \/ RegisterHandler("act", "returns")
  \/ \E f \in PipelineFrames : Execute(f)
  \/ ClearExecutionLog

Spec == Init /\ [][Next]_vars

\* Interpreter(Registry(...), create_mock_trust_chain(1, 0x42, ...), ActionRegistry())
InitWalk ==
  /\ graphs = <<>>
  /\ bindings = <<>>
  /\ revocations = <<>>
  /\ domain_certs = [d \in {TrustDomain} |-> MockDomainCert]
  /\ authority_certs = [k \in {<<TrustDomain, CertifiedAuthority>>} |-> MockAuthorityCert]
  /\ revoked_authorities = {}
  /\ handlers = <<>>
  /\ execution_log = <<>>
  /\ now = 0
  /\ last = [op |-> "init"]

\* graph walks under a valid trust chain, over the graphs of WalkCatalog and
\* handlers that return, raise, or raise once
NextWalk ==
  \/ \E g \in WalkCatalog : RegisterGraph(g)
  \/ BindGlyph(GlyphRangeLow, "g1", 1)
  \/ \E h \in {"returns", "raises", "raises_first"} : RegisterHandler("act", h)
  \/ \E f \in WalkFrames : Execute(f)
  \/ ClearExecutionLog

SpecWalk == InitWalk /\ [][NextWalk]_vars

\* the Registry's operations
NextRegistry ==
  \/ \E g \in RegistryCatalog : RegisterGraph(g)
  \/ \E c \in Codes, gid \in BindGraphIds, d \in ValidityDays : BindGlyph(c, gid, d)
  \/ \E c \in Codes : Revoke(c)
  \/ \E c \in Codes : Lookup(c)
  \/ Tick

SpecRegistry == Init /\ [][NextRegistry]_vars

(***************************************************************************)
(* Claims about the Registry.                                              *)
(***************************************************************************)
\* the reference keys of a node dictionary
AllRefKeys == {"next", "on_true", "on_false", "on_error"}

\* the structural invariant of an execution graph: a 'start' node, an exit
\* node, and every next, on_true, on_false and on_error target a node of the graph
WellFormed(graph) ==
  /\ "start" \in DOMAIN graph.nodes
  /\ \E n \in DOMAIN graph.nodes : graph.nodes[n].type = "exit"
  /\ \A n \in DOMAIN graph.nodes : \A k \in AllRefKeys :
       graph.nodes[n][k] # Absent => graph.nodes[n][k] \in DOMAIN graph.nodes

\* the violations of the structural invariant, as validate's messages name them
Violations(graph) ==
  (IF "start" \in DOMAIN graph.nodes THEN {}
     ELSE {[kind |-> "missing_start", node |-> Absent, target |-> Absent]})
  \cup (IF \E n \in DOMAIN graph.nodes : graph.nodes[n].type = "exit" THEN {}
          ELSE {[kind |-> "no_exit", node |-> Absent, target |-> Absent]})
  \cup { RefError(nk[1], graph.nodes[nk[1]][nk[2]]) :
           nk \in { x \in (DOMAIN graph.nodes) \X AllRefKeys :
                      /\ graph.nodes[x[1]][x[2]] # Absent
                      /\ graph.nodes[x[1]][x[2]] \notin DOMAIN graph.nodes } }

\* the elements of a list
Range(seq) == { seq[i] : i \in 1..Len(seq) }

C6_StoredGraphsWellFormed ==
  \A gid \in DOMAIN graphs : WellFormed(graphs[gid])

\* C7: register_graph rejects every graph that breaks the structural
\* invariant, and the error of a rejected registration lists every violation
\* of it (missing 'start', each dangling reference, no exit node).
C7_AllViolationsEnumerated ==
  last.op = "register_graph" =>
    /\ ~WellFormed(last.graph) => last.raised
    /\ last.raised => Violations(last.graph) \subseteq Range(last.errors)

\* C8: bind_glyph raises for a code outside [0x8000, 0xFFFE] and binds at
\* 0x8000 and 0xFFFE when the graph_id is registered; a bind_glyph that raised
\* left the bindings as they were; every key of bindings is in the range.
C8_BindingRange ==
  [][/\ \A c \in DOMAIN bindings' : 32768 <= c /\ c <= 65534
     /\ last'.op = "bind_glyph" =>
          /\ (last'.code < 32768 \/ last'.code > 65534) => last'.raised
          /\ last'.raised => bindings' = bindings
          /\ (last'.code \in {32768, 65534} /\ last'.graph_id \in DOMAIN graphs) =>
               /\ ~last'.raised
               /\ last'.code \in DOMAIN bindings'
               /\ bindings'[last'.code].graph_id = last'.graph_id]_vars

\* C8 witness: bind_glyph has failed on 0xFFFF for a registered graph while
\* both boundary codes are bound
C8_Witness ==
  /\ last.op = "bind_glyph"
  /\ last.code = 65535
  /\ last.graph_id \in DOMAIN graphs
  /\ last.raised
  /\ DOMAIN bindings = {32768, 65534}

\* C9: lookup returns None exactly when the code is revoked, has no binding,
\* or now lies outside the binding's validity window; otherwise it returns
\* the registered graph that the binding's graph_id names.
C9_LookupResult ==
  last.op = "lookup" =>
    LET c == last.code
        excluded == \/ c \in Range(revocations)
                    \/ c \notin DOMAIN bindings
                    \/ now < bindings[c].valid_from
                    \/ now > bindings[c].valid_until
    IN /\ last.result = None <=> excluded
       /\ ~excluded =>
            /\ bindings[c].graph_id \in DOMAIN graphs
            /\ last.result = graphs[bindings[c].graph_id]
            /\ last.result.graph_id = bindings[c].graph_id

\* C9 witness: lookup has returned None for a bound, unrevoked code whose
\* binding has expired
C9_Witness ==
  /\ last.op = "lookup"
  /\ last.code \in DOMAIN bindings
  /\ last.code \notin Range(revocations)
  /\ now > bindings[last.code].valid_until
  /\ last.result = None

(***************************************************************************)
(* Claims about the TrustVerifier.                                         *)
(***************************************************************************)
\* the eight checks of the trust chain, each on its own, for one request
CheckHolds(k, domain, authority, signature) ==
  LET key == <<domain, authority>>
      hasAuth == key \in DOMAIN authority_certs
      hasDom == domain \in DOMAIN domain_certs
  IN CASE k = 1 -> key \notin revoked_authorities
       [] k = 2 -> hasAuth
       [] k = 3 -> /\ hasAuth
                   /\ authority_certs[key].valid_from <= now
                   /\ now <= authority_certs[key].valid_until
       [] k = 4 -> hasDom
       [] k = 5 -> /\ hasDom
                   /\ domain_certs[domain].valid_from <= now
                   /\ now <= domain_certs[domain].valid_until
       [] k = 6 -> /\ hasAuth
                   /\ hasDom
                   /\ authority_certs[key].issuer_id = domain_certs[domain].authority_id
       [] k = 7 -> hasDom /\ domain_certs[domain].issuer_id = 0
       [] k = 8 -> signature # <<>>

\* the checks that fail for one request
FailingChecks(domain, authority, signature) ==
  { k \in 1..8 : ~CheckHolds(k, domain, authority, signature) }

\* the least element of a non-empty set of numbers
Min(S) == CHOOSE x \in S : \A y \in S : x <= y

\* the reason texts that stand for a failure of check k
ReasonTexts(k) ==
  CASE k = 1 -> {"Authority has been revoked"}
    [] k = 2 -> {"Unknown authority"}
    [] k = 3 -> {"Authority certificate expired", "Authority certificate not yet valid"}
    [] k = 4 -> {"Unknown domain"}
    [] k = 5 -> {"Domain certificate expired or not valid"}
    [] k = 6 -> {"Authority not certified by domain authority"}
    [] k = 7 -> {"Domain not certified by root authority"}
    [] k = 8 -> {"Glyph binding signature missing"}

\* C10: verify reports the earliest failing one of its eight checks, with a
\* reason that belongs to that check and to no other; an authority
\* certificate past its window is 'expired', one before it 'not yet valid'.
C10_VerifyOrder ==
  last.op = "verify" =>
    LET failing == FailingChecks(last.domain, last.authority, last.signature)
        text == last.result.reason.text
        key == <<last.domain, last.authority>>
    IN /\ (failing = {}) <=> last.result.valid
       /\ failing # {} =>
            /\ text \in ReasonTexts(Min(failing))
            /\ \A k \in 1..8 : k # Min(failing) => text \notin ReasonTexts(k)
            /\ Min(failing) = 3 =>
                 (text = "Authority certificate expired"
                    <=> now > authority_certs[key].valid_until)

\* C10 witness: verify has answered 'Authority certificate expired' while the
\* domain certificate is missing and the signature is empty as well
C10_Witness ==
  /\ last.op = "verify"
  /\ {3, 4, 8} \subseteq FailingChecks(last.domain, last.authority, last.signature)
  /\ last.result.reason.text = "Authority certificate expired"

(***************************************************************************)
(* Claims about Interpreter.execute.                                       *)
(***************************************************************************)
\* stage 1 of the last execute passed: the frame's code has a binding
StageBinding == last.frame.glyph_code \in DOMAIN bindings

\* stage 2 passed: none of the eight trust checks fails for the frame's
\* domain and authority and the binding's signature
StageTrust ==
  /\ StageBinding
  /\ FailingChecks(last.frame.domain, last.frame.authority,
                   bindings[last.frame.glyph_code].signature) = {}

\* stage 3 passed: the code is not revoked, now is in the binding's window
\* and the bound graph is registered
StageGraph ==
  /\ StageBinding
  /\ last.frame.glyph_code \notin Range(revocations)
  /\ bindings[last.frame.glyph_code].valid_from <= now
  /\ now <= bindings[last.frame.glyph_code].valid_until
  /\ bindings[last.frame.glyph_code].graph_id \in DOMAIN graphs

\* stage 4 passed: every required input of the bound graph has a value in
\* the frame's context or a default
StageContext ==
  /\ StageGraph
  /\ LET inputs == graphs[bindings[last.frame.glyph_code].graph_id].inputs IN
     \A i \in 1..Len(inputs) :
       inputs[i].required =>
         inputs[i].has_default \/ inputs[i].name \in DOMAIN last.frame.context

\* C1: execute never lets an exception escape; it returns an
\* ExecutionResult whose status is success, failed or rejected.
C1_NoExceptionEscapes ==
  last.op = "execute" =>
    /\ ~last.escaped
    /\ last.result.status \in {"success", "failed", "rejected"}

\* C2: a handler is invoked in an execute call only if the binding, trust,
\* graph and context stages all passed in it; a rejected call invoked none.
C2_ExecutionGated ==
  last.op = "execute" =>
    /\ last.calls # <<>> =>
         StageBinding /\ StageTrust /\ StageGraph /\ StageContext
    /\ last.result.status = "rejected" => last.calls = <<>>

\* C2 witness: an execute call that invoked a handler and succeeded
C2_Witness ==
  /\ last.op = "execute"
  /\ Len(last.calls) >= 1
  /\ last.result.status = "success"

\* C4: execute reports the first failing stage in the order binding, trust,
\* graph, context: 'no binding' whatever the trust state; the verifier's
\* reason when the binding exists and trust fails, even if the code is
\* revoked or a parameter is missing; 'graph not found or revoked' when
\* trust holds and the code is revoked or expired, before any parameter check.
C4_StageOrder ==
  last.op = "execute" =>
    LET error == last.result.error
        rejected == ~last.escaped /\ last.result.status = "rejected"
    IN
    /\ ~StageBinding =>
         rejected /\ error.text = "No binding for glyph"
    /\ (StageBinding /\ ~StageTrust) =>
         /\ rejected
         /\ error.text = "Trust verification failed"
         /\ error.args[1].text \in
              ReasonTexts(Min(FailingChecks(last.frame.domain, last.frame.authority,
                                bindings[last.frame.glyph_code].signature)))
    /\ (StageTrust /\ ~StageGraph) =>
         rejected /\ error.text = "Execution graph not found or revoked"
    /\ (StageTrust /\ StageGraph /\ ~StageContext) =>
         rejected /\ error.text = "Missing required parameter"
    /\ (StageTrust /\ StageContext) => ~rejected

\* C4 witness: a frame of the uncertified authority for a bound code that is
\* also revoked has been rejected with 'Unknown authority'
C4_Witness ==
  /\ last.op = "execute"
  /\ StageBinding
  /\ last.frame.authority = UncertifiedAuthority
  /\ last.frame.glyph_code \in Range(revocations)
  /\ last.result.status = "rejected"
  /\ last.result.error.text = "Trust verification failed"
  /\ last.result.error.args[1].text = "Unknown authority"

\* the graph the last execute walked, when its code is bound
WalkedGraph == graphs[bindings[last.frame.glyph_code].graph_id]

\* C5: a walk visits at most 100 nodes and invokes at most 100 handlers; a
\* 'max iterations exceeded' result is failed and carries exactly 100 node
\* ids, none of them an exit; the graphs that cycle through next, on_false
\* and on_error end that way.
C5_WalkTerminates ==
  (last.op = "execute" /\ ~last.escaped) =>
    LET maxed == last.result.error.text
                   = "Max iterations exceeded - possible infinite loop"
    IN
    /\ Len(last.visited) <= 100
    /\ Len(last.calls) <= 100
    /\ Len(last.result.node_trace) <= 100
    /\ maxed =>
         /\ last.result.status = "failed"
         /\ Len(last.result.node_trace) = 100
         /\ \A i \in 1..100 :
              /\ last.result.node_trace[i] \in DOMAIN WalkedGraph.nodes
              /\ WalkedGraph.nodes[last.result.node_trace[i]].type # "exit"
    /\ (StageTrust /\ StageContext) =>
         /\ WalkedGraph = ConditionLoopGraph("g1") => maxed
         /\ (WalkedGraph = NextLoopGraph("g1")
               /\ "act" \in DOMAIN handlers /\ handlers["act"] = "returns") => maxed
         /\ (WalkedGraph = ErrorLoopGraph("g1")
               /\ ("act" \in DOMAIN handlers => handlers["act"] = "raises")) => maxed

\* C5 witness: the graph whose on_error leads back to the raising action has
\* ended in 'max iterations exceeded' after the entry node and 99 handler
\* invocations
C5_Witness ==
  /\ last.op = "execute"
  /\ StageTrust
  /\ StageContext
  /\ WalkedGraph = ErrorLoopGraph("g1")
  /\ "act" \in DOMAIN handlers
  /\ Len(last.calls) = 99
  /\ last.result.status = "failed"
  /\ last.result.error.text = "Max iterations exceeded - possible infinite loop"
  /\ Len(last.result.node_trace) = 100

(***************************************************************************)
(* Claims about the outcome of TrustVerifier.verify.                       *)
(***************************************************************************)
\* the checks a single change to a valid chain makes fail on their own:
\* revocation (1), a window that excludes now (3, 5), a wrong issuer_id on
\* either certificate (6, 7), an empty signature (8)
SingleChanges == {1, 3, 5, 6, 7, 8}

\* C11: verify answers valid=True exactly when none of the eight checks
\* fails, and then with the authority certificate's name and chain_length 2;
\* every other answer has chain_length 0 and no name, in particular the
\* answer for a chain that is valid but for one single change.
C11_ValidExactlyWhenAllHold ==
  last.op = "verify" =>
    LET failing == FailingChecks(last.domain, last.authority, last.signature)
        key == <<last.domain, last.authority>>
        r == last.result
    IN /\ r.valid = (failing = {})
       /\ r.valid =>
            /\ r.authority_name = authority_certs[key].name
            /\ r.chain_length = 2
            /\ r.reason.text = "Trust chain verified"
       /\ ~r.valid => (r.chain_length = 0 /\ r.authority_name = "")
       /\ \A k \in SingleChanges :
            failing = {k} =>
              (~r.valid /\ r.chain_length = 0 /\ r.reason.text \in ReasonTexts(k))

\* C11 witness: verify has answered valid=True with the authority's name and
\* a chain of length 2, after the clock has moved
C11_Witness ==
  /\ last.op = "verify"
  /\ now > 0
  /\ last.result.valid
  /\ last.result.authority_name = "City of Tokyo Traffic Authority"
  /\ last.result.chain_length = 2

(***************************************************************************)
(* Claims about the execution log.                                         *)
(***************************************************************************)
\* C12: every execute call that returns a result lengthens the execution
\* log by exactly one entry, whose status, error and node count are those of
\* the returned result, whatever the status.
C12_EveryResultLogged ==
  [][ (last'.op = "execute" /\ ~last'.escaped) =>
        /\ Len(execution_log') = Len(execution_log) + 1
        /\ LET entry == execution_log'[Len(execution_log')] IN
             /\ entry.status = last'.result.status
             /\ entry.error.text = last'.result.error.text
             /\ entry.node_count = Len(last'.result.node_trace) ]_vars

\* C13: the execution log is append-only: every step leaves the log it
\* found as a prefix of the log it leaves behind.
C13_LogAppendOnly ==
  [][ /\ Len(execution_log) <= Len(execution_log')
      /\ SubSeq(execution_log', 1, Len(execution_log)) = execution_log ]_vars

(***************************************************************************)
(* Claims about the graph walk.                                            *)
(***************************************************************************)
\* C14: a failed result carries the partial trace: its node_trace is the
\* sequence of the nodes the walk visited, from 'start' to the node at which
\* it failed, whether a handler raised with no on_error, a node or node type
\* was unknown, or the iteration cap was hit.
C14_FailedCarriesTrace ==
  (last.op = "execute" /\ ~last.escaped /\ last.result.status = "failed") =>
    /\ last.result.node_trace = last.visited
    /\ Len(last.result.node_trace) >= 1
    /\ last.result.node_trace[1] = "start"

(***************************************************************************)
(* GlyphFrame and GlyphCodec.  A 32-bit word is kept as its two 16-bit     *)
(* halves <<high, low>>, bytes as numbers in 0..255, and a text as the     *)
(* sequence of its pieces: the separators, the single digits, and the      *)
(* names and tokens that the tables hold, each of them one piece.          *)
(***************************************************************************)
\* GLYPH_TOKENS: 0x8001..0x8007 -> mnemonic token
GLYPH_TOKENS ==
  (32769 :> "@A1") @@ (32770 :> "@A2") @@ (32771 :> "@C3") @@ (32772 :> "@N4")
    @@ (32773 :> "@X5") @@ (32774 :> "@I6") @@ (32775 :> "@S7")

\* Domain.__members__, names in lower case
DomainMembers ==
  [reserved |-> 0, smart_city |-> 1, aerospace |-> 2, maritime |-> 3,
   military |-> 4, medical |-> 5, industrial |-> 6, financial |-> 7,
   energy |-> 8, transport |-> 9, telecom |-> 10, agriculture |-> 11,
   custom |-> 15]

\* the digits of format spec X and of str(int)
HexDigits ==
  <<"0", "1", "2", "3", "4", "5", "6", "7", "8", "9", "A", "B", "C", "D", "E", "F">>

RECURSIVE FormatHex(_, _)
\* f"{n:0<width>X}"
FormatHex(n, width) ==
  IF n < 16 /\ width <= 1 THEN <<HexDigits[n + 1]>>
  ELSE Append(FormatHex(n \div 16, width - 1), HexDigits[(n % 16) + 1])

\* whether int(s, 16) accepts s
IsHex(s) == s # <<>> /\ \A i \in 1..Len(s) : \E d \in 1..16 : HexDigits[d] = s[i]

RECURSIVE ParseHex(_)
\* int(s, 16) for an s it accepts
ParseHex(s) ==
  LET digit == (CHOOSE d \in 1..16 : HexDigits[d] = s[Len(s)]) - 1
  IN IF Len(s) = 1 THEN digit
     ELSE ParseHex(SubSeq(s, 1, Len(s) - 1)) * 16 + digit

RECURSIVE FormatDec(_)
\* str(n) for an int n >= 0
FormatDec(n) ==
  IF n < 10 THEN <<HexDigits[n + 1]>>
  ELSE Append(FormatDec(n \div 10), HexDigits[(n % 10) + 1])

\* whether int(s) accepts s
IsDec(s) == s # <<>> /\ \A i \in 1..Len(s) : \E d \in 1..10 : HexDigits[d] = s[i]

RECURSIVE ParseDec(_)
\* int(s) for an s it accepts
ParseDec(s) ==
  LET digit == (CHOOSE d \in 1..10 : HexDigits[d] = s[Len(s)]) - 1
  IN IF Len(s) = 1 THEN digit
     ELSE ParseDec(SubSeq(s, 1, Len(s) - 1)) * 10 + digit

\* str(v) of a context value
PyStrOf(v) == IF v.t = "int" THEN FormatDec(v.v) ELSE <<v.v>>

RECURSIVE Split(_, _)
\* s.split(sep)
Split(s, sep) ==
  IF \A i \in 1..Len(s) : s[i] # sep THEN <<s>>
  ELSE LET i == CHOOSE j \in 1..Len(s) :
                  s[j] = sep /\ \A k \in 1..(j - 1) : s[k] # sep
       IN <<SubSeq(s, 1, i - 1)>> \o Split(SubSeq(s, i + 1, Len(s)), sep)

\* the order in which a context dict yields its items
ContextKeyOrder == <<"zone", "priority", "mode">>

\* bool(frame.context): neither None nor an empty dict
ContextIsTruthy(context) == context # None /\ DOMAIN context # {}

\* GlyphFrame.to_token
to_token(frame) ==
  IF frame.glyph_code \in DOMAIN GLYPH_TOKENS
    THEN <<GLYPH_TOKENS[frame.glyph_code]>>
    ELSE <<"@">> \o FormatHex(frame.glyph_code, 4)

\* the 32-bit word with its bytes in the opposite order
struct_pack_little_endian(word) ==
  <<word[2] % 256, word[2] \div 256, word[1] % 256, word[1] \div 256>>

\* struct.pack('>I', word): four bytes, most significant first
struct_pack(word) ==
  <<word[1] \div 256, word[1] % 256, word[2] \div 256, word[2] % 256>>

\* struct.unpack('>I', data)[0]
struct_unpack(data) == <<data[1] * 256 + data[2], data[3] * 256 + data[4]>>

\* the modes table of _encode_context and its inverse in _decode_context
Modes == [normal |-> 0, emergency |-> 1, maintenance |-> 2, test |-> 3]

\* GlyphCodec._encode_context: zone << 24 | priority << 16 | mode << 8
_encode_context(context) ==
  LET zone == IF "zone" \in DOMAIN context THEN context["zone"].v % 256 ELSE 0
      priority == IF "priority" \in DOMAIN context
                    THEN context["priority"].v % 256 ELSE 0
      mode == IF "mode" \in DOMAIN context /\ context["mode"].v \in DOMAIN Modes
                THEN Modes[context["mode"].v] ELSE 0
  IN <<zone * 256 + priority, mode * 256>>

\* GlyphCodec._decode_context
_decode_context(packed) ==
  LET code == packed[2] \div 256 IN
  [zone |-> PyInt(packed[1] \div 256),
   priority |-> PyInt(packed[1] % 256),
   mode |-> PyStr(IF \E m \in DOMAIN Modes : Modes[m] = code
                    THEN CHOOSE m \in DOMAIN Modes : Modes[m] = code
                    ELSE "normal")]

\* GlyphCodec.encode
encode(frame) ==
  LET packed == <<(frame.domain % 16) * 4096 + (frame.authority % 4096),
                  frame.glyph_code % 65536>>
  IN IF ContextIsTruthy(frame.context)
       THEN struct_pack(packed) \o struct_pack(_encode_context(frame.context))
       ELSE struct_pack(packed)

\* GlyphCodec.decode: the frame, or the ValueError for fewer than 4 bytes
decode(data) ==
  IF Len(data) < 4
    THEN [exc |-> "ValueError", frame |-> None]
    ELSE LET packed == struct_unpack(SubSeq(data, 1, 4)) IN
         [exc |-> "",
          frame |-> [domain |-> packed[1] \div 4096,
                     authority |-> packed[1] % 4096,
                     glyph_code |-> packed[2],
                     context |-> IF Len(data) >= 8
                                   THEN _decode_context(
                                          struct_unpack(SubSeq(data, 5, 8)))
                                   ELSE None]]

RECURSIVE JoinItems(_, _)
\* "&".join(f"{k}={v}" for k, v in context.items()) over the keys given
JoinItems(context, keys) ==
  IF keys = <<>> THEN <<>>
  ELSE LET k == Head(keys)
           rest == JoinItems(context, Tail(keys))
       IN IF k \notin DOMAIN context THEN rest
          ELSE <<k, "=">> \o PyStrOf(context[k])
                 \o (IF rest = <<>> THEN <<>> ELSE <<"&">> \o rest)

\* GlyphCodec.to_text
to_text(frame) ==
  LET domain_name ==
        IF \E k \in DOMAIN DomainMembers : DomainMembers[k] = frame.domain
          THEN <<CHOOSE k \in DOMAIN DomainMembers : DomainMembers[k] = frame.domain>>
          ELSE <<"domain_">> \o FormatDec(frame.domain)
      authority_name == <<"auth_">> \o FormatHex(frame.authority, 3)
      uri == <<"UASC://">> \o domain_name \o <<".">> \o authority_name
               \o <<"/">> \o to_token(frame)
  IN IF ContextIsTruthy(frame.context)
       THEN uri \o <<"?">> \o JoinItems(frame.context, ContextKeyOrder)
       ELSE uri

\* one 'key=value' of the query: the key and int(value), or value itself
\* where int raises ValueError
ParseParam(param) ==
  LET kv == Split(param, "=") IN
  [key |-> kv[1][1],
   value |-> IF IsDec(kv[2]) THEN PyInt(ParseDec(kv[2])) ELSE PyStr(kv[2][1])]

\* GlyphCodec.from_text: the frame, or the ValueError of a malformed uri
from_text(uri) ==
  IF uri = <<>> \/ uri[1] # "UASC://"
    THEN [exc |-> "ValueError", frame |-> None]
  ELSE
    LET rest == Tail(uri)
        hasQuery == \E i \in 1..Len(rest) : rest[i] = "?"
        q == IF hasQuery
               THEN CHOOSE j \in 1..Len(rest) :
                      rest[j] = "?" /\ \A k \in 1..(j - 1) : rest[k] # "?"
               ELSE Len(rest) + 1
        path == SubSeq(rest, 1, q - 1)
        query == SubSeq(rest, q + 1, Len(rest))
        parts == Split(path, "/")
    IN
    IF Len(parts) # 2 \/ Len(Split(parts[1], ".")) # 2
      THEN [exc |-> "ValueError", frame |-> None]
    ELSE
      LET domain_str == Split(parts[1], ".")[1]
          auth_str == Split(parts[1], ".")[2]
          glyph_char == parts[2]
          params == Split(query, "&")
      IN
      IF auth_str # <<>> /\ auth_str[1] = "auth_" /\ ~IsHex(Tail(auth_str))
        THEN [exc |-> "ValueError", frame |-> None]
      ELSE IF query # <<>> /\ \E i \in 1..Len(params) : Len(Split(params[i], "=")) # 2
        THEN [exc |-> "ValueError", frame |-> None]
      ELSE
        [exc |-> "",
         frame |->
           [domain |-> IF Len(domain_str) = 1 /\ domain_str[1] \in DOMAIN DomainMembers
                         THEN DomainMembers[domain_str[1]] ELSE 0,
            authority |-> IF auth_str # <<>> /\ auth_str[1] = "auth_"
                            THEN ParseHex(Tail(auth_str)) ELSE 0,
            glyph_code |-> IF \E c \in DOMAIN GLYPH_TOKENS : <<GLYPH_TOKENS[c]>> = glyph_char
                             THEN CHOOSE c \in DOMAIN GLYPH_TOKENS :
                                    <<GLYPH_TOKENS[c]>> = glyph_char
                             ELSE 65535,
            context |-> IF query = <<>> THEN None
                        ELSE [k \in { ParseParam(params[i]).key : i \in 1..Len(params) } |->
                                LET i == CHOOSE j \in 1..Len(params) :
                                           /\ ParseParam(params[j]).key = k
                                           /\ \A m \in (j + 1)..Len(params) :
                                                ParseParam(params[m]).key # k
                                IN ParseParam(params[i]).value]]]

\* a caller's GlyphCodec.encode(frame)
Encode ==
  /\ last.op = "frame"
  /\ last' = [op |-> "encode", frame |-> last.frame, data |-> encode(last.frame)]
  /\ UNCHANGED <<registryVars, trustVars, interpVars, now>>

\* a caller's GlyphCodec.decode(data) on what encode returned
Decode ==
  /\ last.op = "encode"
  /\ last' = [op |-> "decode", frame |-> last.frame, data |-> last.data,
              result |-> decode(last.data)]
  /\ UNCHANGED <<registryVars, trustVars, interpVars, now>>

\* a caller's GlyphCodec.to_text(frame)
ToText ==
  /\ last.op = "frame"
  /\ last' = [op |-> "to_text", frame |-> last.frame, uri |-> to_text(last.frame)]
  /\ UNCHANGED <<registryVars, trustVars, interpVars, now>>

\* a caller's GlyphCodec.from_text(uri) on what to_text returned
FromText ==
  /\ last.op = "to_text"
  /\ last' = [op |-> "from_text", frame |-> last.frame, uri |-> last.uri,
              result |-> from_text(last.uri)]
  /\ UNCHANGED <<registryVars, trustVars, interpVars, now>>

\* contexts of the frames handed to the codec: none, and dicts over the
\* fixed fields zone, priority and mode
CodecContexts ==
  {None,
   [zone |-> PyInt(3)],
   [mode |-> PyStr("test")],
   [zone |-> PyInt(3), priority |-> PyInt(5), mode |-> PyStr("emergency")],
   [zone |-> PyInt(255), priority |-> PyInt(0), mode |-> PyStr("normal")]}

\* frames handed to the codec: domains with and without a Domain member,
\* codes with and without a token, and one value past the end of each field
CodecFrames ==
  { Frame(d, a, g, c) : d \in {0, 1, 12, 15, 16}, a \in {0, 66, 4095, 4096},
                        g \in {0, 32771, 36864, 65535, 65536},
                        c \in CodecContexts }

\* a GlyphFrame(...) just constructed, no registry, verifier or interpreter
InitCodec ==
  /\ graphs = <<>>
  /\ bindings = <<>>
  /\ revocations = <<>>
  /\ domain_certs = <<>>
  /\ authority_certs = <<>>
  /\ revoked_authorities = {}
  /\ handlers = <<>>
  /\ execution_log = <<>>
  /\ now = 0
  /\ \E f \in CodecFrames : last = [op |-> "frame", frame |-> f]

\* the codec's operations
NextCodec == Encode \/ Decode \/ ToText \/ FromText

SpecCodec == InitCodec /\ [][NextCodec]_vars

\* the frames the round-trip properties speak of
InFieldRanges(frame) ==
  /\ frame.domain \in 0..15
  /\ frame.authority \in 0..4095
  /\ frame.glyph_code \in 0..65535

\* C15: for a frame within the field ranges and with no context, encode
\* yields exactly 4 bytes and decode(encode(f)) is f, field for field.
C15_BinaryRoundTrip ==
  (last.op \in {"encode", "decode"} /\ InFieldRanges(last.frame)
     /\ last.frame.context = None) =>
    /\ Len(last.data) = 4
    /\ \A i \in 1..4 : last.data[i] \in 0..255
    /\ last.op = "decode" =>
         /\ last.result.exc = ""
         /\ last.result.frame.domain = last.frame.domain
         /\ last.result.frame.authority = last.frame.authority
         /\ last.result.frame.glyph_code = last.frame.glyph_code
         /\ last.result.frame.context = None

\* C15 witness: the frame 15.FFF.FFFF without context has been encoded and
\* decoded
C15_Witness ==
  /\ last.op = "decode"
  /\ last.frame = Frame(15, 4095, 65535, None)
  /\ last.data = <<255, 255, 255, 255>>
  /\ last.result.frame = last.frame

\* C16: for a frame within the field ranges whose context is a non-empty
\* dict over zone, priority and mode, encode yields 8 bytes and
\* decode(encode(f)) is f, context included.
C16_BinaryRoundTripContext ==
  (last.op \in {"encode", "decode"} /\ InFieldRanges(last.frame)
     /\ last.frame.context # None) =>
    /\ Len(last.data) = 8
    /\ last.op = "decode" =>
         /\ last.result.exc = ""
         /\ last.result.frame.domain = last.frame.domain
         /\ last.result.frame.authority = last.frame.authority
         /\ last.result.frame.glyph_code = last.frame.glyph_code
         /\ DOMAIN last.result.frame.context = DOMAIN last.frame.context
         /\ \A k \in DOMAIN last.frame.context :
              last.result.frame.context[k] = last.frame.context[k]

\* C17: for a frame within the field ranges, from_text(to_text(f)) is f:
\* domain, authority, glyph code (token or @ and four hex digits) and
\* context.
C17_TextRoundTrip ==
  (last.op = "from_text" /\ InFieldRanges(last.frame)) =>
    /\ last.result.exc = ""
    /\ last.result.frame.domain = last.frame.domain
    /\ last.result.frame.authority = last.frame.authority
    /\ last.result.frame.glyph_code = last.frame.glyph_code
    /\ IF last.frame.context = None
         THEN last.result.frame.context = None
         ELSE /\ last.result.frame.context # None
              /\ DOMAIN last.result.frame.context = DOMAIN last.frame.context
              /\ \A k \in DOMAIN last.frame.context :
                   last.result.frame.context[k] = last.frame.context[k]

(***************************************************************************)
(* The demo: the emergency-priority graph bound to 0x8003 under the mock   *)
(* trust chain.                                                            *)
(***************************************************************************)
\* create_emergency_priority_graph()
EmergencyPriorityGraph ==
  [graph_id |-> "emergency-priority-001",
   inputs |-> <<RequiredInput("zone"),
                DefaultInput("vehicle_id", PyStr("UNIT-001")),
                DefaultInput("priority", PyInt(5))>>,
   nodes |->
     [n \in {"start", "check_priority", "clear_corridor", "standard_timing",
             "success_emergency", "success_standard"} |->
        CASE n = "start" ->
               [EmptyNode EXCEPT !.type = "entry", !.next = "check_priority"]
          [] n = "check_priority" ->
               [EmptyNode EXCEPT !.type = "condition",
                  !.expression = [kind |-> "ge", name |-> "priority", rhs |-> 3],
                  !.on_true = "clear_corridor", !.on_false = "standard_timing"]
          [] n = "clear_corridor" ->
               [EmptyNode EXCEPT !.type = "action",
                  !.operation = "traffic.emergency_corridor",
                  !.params = [zone |-> InputRef("zone"),
                              vehicle_id |-> InputRef("vehicle_id")],
                  !.next = "success_emergency"]
          [] n = "standard_timing" ->
               [EmptyNode EXCEPT !.type = "action",
                  !.operation = "traffic.optimize_route",
                  !.params = [zone |-> InputRef("zone")],
                  !.next = "success_standard"]
          [] n = "success_emergency" ->
               [EmptyNode EXCEPT !.type = "exit",
                  !.outputs = [corridor_cleared |-> Literal(PyBool(TRUE)),
                               signals_affected |->
                                 NodeRef("clear_corridor", "signal_count")]]
          [] n = "success_standard" ->
               [EmptyNode EXCEPT !.type = "exit",
                  !.outputs = [corridor_cleared |-> Literal(PyBool(FALSE)),
                               signals_affected |->
                                 NodeRef("standard_timing", "signal_count")]]]]

\* registry.bind_glyph(0x8003, "emergency-priority-001")
EmergencyGlyph == 32771

\* the operations of the two action nodes
DemoOperations == {"traffic.emergency_corridor", "traffic.optimize_route"}

\* frames for 0x8003 with and without zone, and with a priority on either
\* side of the threshold or none
DemoFrames ==
  { Frame(TrustDomain, CertifiedAuthority, EmergencyGlyph, ctx) :
      ctx \in {<<>>, [zone |-> PyInt(5)]}
              \cup { [zone |-> PyInt(5), priority |-> PyInt(p)] : p \in {0, 2, 3, 5} } }

\* the demo's phases: register the graph, bind the glyph, register the
\* handlers (ones that return and ones that raise), execute
NextDemo ==
  \/ RegisterGraph(EmergencyPriorityGraph)
  \/ BindGlyph(EmergencyGlyph, EmergencyPriorityGraph.graph_id, 1)
  \/ \E o \in DemoOperations, h \in {"returns", "raises"} : RegisterHandler(o, h)
  \/ \E f \in DemoFrames : Execute(f)
  \/ ClearExecutionLog

SpecDemo == InitWalk /\ [][NextDemo]_vars

\* the priority the condition sees: the frame's, or the graph's default 5
EffectivePriority ==
  IF "priority" \in DOMAIN last.frame.context
    THEN last.frame.context["priority"].v ELSE 5

\* C18: with the emergency-priority graph bound to 0x8003, a valid trust
\* chain, zone supplied and both handlers returning, execute succeeds; for
\* priority >= 3 along start, check_priority, clear_corridor,
\* success_emergency with corridor_cleared True, for priority < 3 along
\* start, check_priority, standard_timing, success_standard with
\* corridor_cleared False.
C18_BranchOnPriority ==
  (/\ last.op = "execute"
   /\ last.frame.glyph_code = EmergencyGlyph
   /\ StageTrust
   /\ StageContext
   /\ WalkedGraph = EmergencyPriorityGraph
   /\ \A o \in DemoOperations : o \in DOMAIN handlers /\ handlers[o] = "returns") =>
    /\ ~last.escaped
    /\ last.result.status = "success"
    /\ EffectivePriority >= 3 =>
         /\ last.result.node_trace =
              <<"start", "check_priority", "clear_corridor", "success_emergency">>
         /\ last.result.outputs["corridor_cleared"] = PyBool(TRUE)
    /\ EffectivePriority < 3 =>
         /\ last.result.node_trace =
              <<"start", "check_priority", "standard_timing", "success_standard">>
         /\ last.result.outputs["corridor_cleared"] = PyBool(FALSE)

\* C18 witness: a frame with priority 2 has gone the standard way
C18_Witness ==
  /\ last.op = "execute"
  /\ "priority" \in DOMAIN last.frame.context
  /\ last.frame.context["priority"] = PyInt(2)
  /\ last.result.status = "success"
  /\ last.result.node_trace =
       <<"start", "check_priority", "standard_timing", "success_standard">>
  /\ last.result.outputs["corridor_cleared"] = PyBool(FALSE)

(***************************************************************************)
(* Claims about errors inside the walk.                                    *)
(***************************************************************************)
\* the operation an action node names: node.get('operation', '')
OperationOf(node) == IF node.operation = Absent THEN "" ELSE node.operation

\* node n of the walked graph is an action whose handler raises on every
\* call, or is missing, so that ActionRegistry.execute raises
AlwaysRaises(n) ==
  /\ n \in DOMAIN WalkedGraph.nodes
  /\ WalkedGraph.nodes[n].type \in {"action", Absent}
  /\ LET operation == OperationOf(WalkedGraph.nodes[n]) IN
       operation \in DOMAIN handlers => handlers[operation] = "raises"

\* C19: a result is stored exactly for the nodes whose handler returned; a
\* visit of an action whose handler raises, or has no handler, is followed
\* by the on_error target when the node declares one, and otherwise is the
\* last visit of a call that returns failed with the exception's text.
C19_ActionErrorRouting ==
  (last.op = "execute" /\ ~last.escaped /\ last.visited # <<>>) =>
    /\ DOMAIN last.node_results =
         { last.calls[i].node : i \in { j \in 1..Len(last.calls) : ~last.calls[j].raised } }
    /\ \A i \in 1..Len(last.visited) :
         AlwaysRaises(last.visited[i]) =>
           LET node == WalkedGraph.nodes[last.visited[i]] IN
           IF node.on_error # Absent
             THEN /\ i < Len(last.visited) => last.visited[i + 1] = node.on_error
                  /\ i = Len(last.visited) =>
                       /\ last.result.status = "failed"
                       /\ last.result.error.text \in
                            {"Unknown node",
                             "Max iterations exceeded - possible infinite loop"}
             ELSE /\ i = Len(last.visited)
                  /\ last.result.status = "failed"
                  /\ last.result.error.text =
                       IF OperationOf(node) \in DOMAIN handlers
                         THEN "handler error" ELSE "Unknown operation"

\* C19 witness: the handler raised at a, the walk went on at a's on_error
\* target b and ended in success, with a result stored for b and none for a
C19_Witness ==
  /\ last.op = "execute"
  /\ last.visited = <<"start", "a", "b", "end">>
  /\ WalkedGraph = ErrorRouteGraph("g1")
  /\ last.calls[1].node = "a"
  /\ last.calls[1].raised
  /\ last.result.status = "success"
  /\ DOMAIN last.node_results = {"b"}

\* the node types the walk knows
KnownNodeTypes == {"entry", "exit", "action", "condition"}

\* C20: a call whose walk visited a node of an unrecognised or missing type
\* is failed and invoked no handler at that node; a call whose walk ran into
\* a target that is no node of the graph is failed; a call that succeeded
\* ended its walk at an exit node.
C20_UnknownNodeOrTypeFails ==
  (last.op = "execute" /\ ~last.escaped /\ last.visited # <<>>) =>
    /\ \A i \in 1..Len(last.visited) :
         WalkedGraph.nodes[last.visited[i]].type \notin KnownNodeTypes =>
           /\ last.result.status = "failed"
           /\ \A j \in 1..Len(last.calls) : last.calls[j].node # last.visited[i]
    /\ last.result.error.text \in {"Unknown node", "Unknown node type"} =>
         last.result.status = "failed"
    /\ last.result.status = "success" =>
         WalkedGraph.nodes[last.visited[Len(last.visited)]].type = "exit"

(***************************************************************************)
(* Claims about the execution context.                                     *)
(***************************************************************************)
\* some input of the walked graph is declared required and has neither a
\* value in the frame's context nor a default
MissingRequired ==
  \E i \in 1..Len(WalkedGraph.inputs) :
    /\ WalkedGraph.inputs[i].required
    /\ ~WalkedGraph.inputs[i].has_default
    /\ WalkedGraph.inputs[i].name \notin DOMAIN last.frame.context

\* the names of the walked graph's inputs that carry a default
DefaultedNames ==
  { WalkedGraph.inputs[i].name :
      i \in { j \in 1..Len(WalkedGraph.inputs) : WalkedGraph.inputs[j].has_default } }

\* C21: once binding, trust and graph have passed, execute returns rejected
\* with 'Missing required parameter' exactly when a required input has
\* neither a supplied value nor a default; otherwise the parameters are the
\* frame's context laid over the defaults: a supplied value wins, a default
\* fills in only what the frame did not supply.
C21_ContextBuilding ==
  (last.op = "execute" /\ StageTrust /\ StageGraph) =>
    LET built == _build_context(last.frame, WalkedGraph) IN
    /\ MissingRequired <=>
         /\ ~last.escaped
         /\ last.result.status = "rejected"
         /\ last.result.error.text = "Missing required parameter"
    /\ ~MissingRequired =>
         /\ DOMAIN built.parameters = DOMAIN last.frame.context \cup DefaultedNames
         /\ \A k \in DOMAIN last.frame.context :
              built.parameters[k] = last.frame.context[k]
         /\ \A i \in 1..Len(WalkedGraph.inputs) :
              LET input_def == WalkedGraph.inputs[i] IN
              (input_def.has_default /\ input_def.name \notin DOMAIN last.frame.context)
                => built.parameters[input_def.name] = input_def.default

(***************************************************************************)
(* Claims about parameter and output resolution.                           *)
(***************************************************************************)
\* start -> a -> b -> end, with every kind of value among the params of the
\* two actions and the outputs of the exit
ResolveGraph(graph_id) ==
  [graph_id |-> graph_id,
   inputs |-> <<DefaultInput("priority", PyInt(5))>>,
   nodes |->
     Nodes4([EmptyNode EXCEPT !.type = "action", !.operation = "act", !.next = "b",
               !.params = [zone |-> InputRef("zone"),
                           priority |-> InputRef("priority"),
                           label |-> Plain("north"),
                           flag |-> Literal(PyBool(TRUE)),
                           early |-> NodeRef("b", "ok")]],
            [EmptyNode EXCEPT !.type = "action", !.operation = "act", !.next = "end",
               !.params = [prev |-> NodeRef("a", "ok"),
                           deep |-> StrValue(<<"a", ".", "ok", ".", "x">>),
                           nested |-> StrValue(<<"inputs", ".", "a", ".", "ok">>)]],
            [EmptyNode EXCEPT !.type = "exit",
               !.outputs = [prev |-> NodeRef("a", "ok"),
                            zone |-> InputRef("zone"),
                            label |-> Plain("north"),
                            count |-> Literal(PyInt(2)),
                            ghost |-> NodeRef("ghost", "ok")]])]

\* frames with and without zone and priority
ResolveFrames ==
  { Frame(TrustDomain, CertifiedAuthority, GlyphRangeLow, ctx) :
      ctx \in {<<>>, [zone |-> PyInt(3)], [priority |-> PyInt(1)],
               [zone |-> PyInt(3), priority |-> PyInt(1)],
               [zone |-> PyInt(0), priority |-> PyInt(7)]} }

\* walks of ResolveGraph with handlers that return a dict, return a value
\* that is no dict, raise, or raise once
NextResolve ==
  \/ RegisterGraph(ResolveGraph("g1"))
  \/ BindGlyph(GlyphRangeLow, "g1", 1)
  \/ \E h \in {"returns", "returns_scalar", "raises", "raises_first"} :
       RegisterHandler("act", h)
  \/ \E f \in ResolveFrames : Execute(f)
  \/ ClearExecutionLog

SpecResolve == InitWalk /\ [][NextResolve]_vars

\* two Python values are equal: same type, same value
PyEq(x, y) == x.t = y.t /\ x.v = y.v

\* C22: in a successful walk of ResolveGraph the handlers' params and the
\* exit's outputs resolve alike: 'inputs.<name>' to the context parameter
\* (None when there is none), '<node>.<key>' to the key of the node's
\* result, to the whole result when it is no dict, to None when the node has
\* no result yet; a string without a dot and a value that is no string pass
\* through unchanged.
C22_Resolution ==
  (last.op = "execute" /\ last.result.status = "success"
     /\ WalkedGraph = ResolveGraph("g1")) =>
    LET ctx == last.frame.context
        zone == IF "zone" \in DOMAIN ctx THEN ctx["zone"] ELSE PyNone
        priority == IF "priority" \in DOMAIN ctx THEN ctx["priority"] ELSE PyInt(5)
        scalar == handlers["act"] = "returns_scalar"
        a == last.calls[1].params
        b == last.calls[2].params
        out == last.result.outputs
    IN /\ Len(last.calls) = 2
       /\ PyEq(a["zone"], zone)
       /\ PyEq(a["priority"], priority)
       /\ PyEq(a["label"], PyStr("north"))
       /\ PyEq(a["flag"], PyBool(TRUE))
       /\ PyEq(a["early"], PyNone)
       /\ PyEq(b["prev"], IF scalar THEN PyInt(7) ELSE PyBool(TRUE))
       /\ PyEq(b["deep"], IF scalar THEN PyInt(7) ELSE PyNone)
       /\ PyEq(b["nested"], PyNone)
       /\ PyEq(out["prev"], b["prev"])
       /\ PyEq(out["zone"], zone)
       /\ PyEq(out["label"], PyStr("north"))
       /\ PyEq(out["count"], PyInt(2))
       /\ PyEq(out["ghost"], PyNone)

\* C22 witness: a walk of ResolveGraph with a handler whose result is no
\* dict has succeeded, the whole result standing for 'a.ok'
C22_Witness ==
  /\ last.op = "execute"
  /\ last.result.status = "success"
  /\ WalkedGraph = ResolveGraph("g1")
  /\ "zone" \in DOMAIN last.frame.context
  /\ PyEq(last.result.outputs["prev"], PyInt(7))
  /\ PyEq(last.result.outputs["zone"], PyInt(3))

(***************************************************************************)
(* Claims about handler invocations.                                       *)
(***************************************************************************)
\* the visits of the last walk that called a handler: the positions of the
\* trace that hold an action node whose operation has a handler
HandlerVisits ==
  SelectSeq(last.visited,
            LAMBDA n : /\ WalkedGraph.nodes[n].type \in {"action", Absent}
                       /\ OperationOf(WalkedGraph.nodes[n]) \in DOMAIN handlers)

C24_BindingNamesRegisteredGraph ==
  /\ [](/\ \A c \in DOMAIN bindings : bindings[c].graph_id \in DOMAIN graphs
        /\ (last.op = "lookup" /\ last.code \in DOMAIN bindings
              /\ last.code \notin Range(revocations)
              /\ bindings[last.code].valid_from <= now
              /\ now <= bindings[last.code].valid_until)
             => last.result = graphs[bindings[last.code].graph_id])
  /\ [][/\ DOMAIN graphs \subseteq DOMAIN graphs'
        /\ last'.op = "bind_glyph" =>
             /\ last'.graph_id \notin DOMAIN graphs => last'.raised
             /\ last'.raised => bindings' = bindings]_vars

\* C24 witness: a bind_glyph for the unregistered graph 'g3' has failed
\* while another code is bound
C24_Witness ==
  /\ last.op = "bind_glyph"
  /\ last.graph_id = "g3"
  /\ last.raised
  /\ last.exc = "graph not found"
  /\ DOMAIN bindings # {}
  /\ last.code \notin DOMAIN bindings

\* C25: a code has one binding, the one written last: after a bind_glyph
\* that succeeds get_binding of its code names its graph and, unless the
\* code is revoked, lookup returns that graph; the call adds no other key
\* and leaves the bindings of all other codes as they were.
C25_LastWriteWins ==
  /\ []((last.op = "bind_glyph" /\ ~last.raised) =>
          /\ get_binding(last.code).glyph_code = last.code
          /\ get_binding(last.code).graph_id = last.graph_id
          /\ ~is_revoked(last.code) => lookup(last.code) = graphs[last.graph_id])
  /\ [][(last'.op = "bind_glyph" /\ ~last'.raised) =>
          /\ DOMAIN bindings' = DOMAIN bindings \cup {last'.code}
          /\ \A c \in DOMAIN bindings :
               c # last'.code => bindings'[c] = bindings[c]]_vars

\* C25 witness: a code bound before (it is revoked, and revoke asks for a
\* binding) has been bound again, to 'g2', while another code is bound
C25_Witness ==
  /\ last.op = "bind_glyph"
  /\ ~last.raised
  /\ last.graph_id = "g2"
  /\ is_revoked(last.code)
  /\ get_binding(last.code).graph_id = "g2"
  /\ \E c \in DOMAIN bindings : c # last.code

(***************************************************************************)
(* Claims about registering a graph again.                                 *)
(***************************************************************************)
\* graphs registered under 'g1' and 'g2', valid ones and ones with no exit
ReregisterCatalog ==
  {ErrorRouteGraph("g1"), DefaultEndGraph("g1"), NoExitGraph("g1"),
   LinearGraph("g2"), NoExitGraph("g2")}

\* two bindable codes
ReregisterCodes == {GlyphRangeLow, GlyphRangeLow + 1}

\* register_graph, bind_glyph, lookup and execute in any order, under a
\* valid trust chain
NextReregister ==
  \/ \E g \in ReregisterCatalog : RegisterGraph(g)
  \/ \E c \in ReregisterCodes, gid \in {"g1", "g2"} : BindGlyph(c, gid, 1)
  \/ \E h \in {"returns", "raises"} : RegisterHandler("act", h)
  \/ \E c \in ReregisterCodes : Lookup(c)
  \/ \E c \in ReregisterCodes :
       Execute(Frame(TrustDomain, CertifiedAuthority, c, <<>>))

SpecReregister == InitWalk /\ [][NextReregister]_vars

\* C26: register_graph of a valid graph replaces the graph stored under its
\* graph_id and leaves the bindings alone: lookup of every code with a
\* live binding to that id returns the new graph, and an execute that
\* follows walks the new graph's nodes; a register_graph that fails
\* validation changes neither the stored graphs nor any lookup.
C26_ReregisterOverwrites ==
  /\ []((last.op = "register_graph" /\ ~last.raised) =>
          \A c \in DOMAIN bindings :
            (/\ bindings[c].graph_id = last.graph.graph_id
             /\ ~is_revoked(c)
             /\ BindingIsValid(bindings[c]))
            => lookup(c) = last.graph)
  /\ [][/\ last'.op = "register_graph" =>
            /\ bindings' = bindings
            /\ last'.raised =>
                 /\ graphs' = graphs
                 /\ \A c \in DOMAIN bindings : lookup(c)' = lookup(c)
        /\ (/\ last.op = "register_graph"
            /\ ~last.raised
            /\ last'.op = "execute"
            /\ last'.frame.glyph_code \in DOMAIN bindings
            /\ bindings[last'.frame.glyph_code].graph_id = last.graph.graph_id
            /\ last'.result.status # "rejected")
           => /\ \A i \in 1..Len(last'.visited) :
                   last'.visited[i] \in DOMAIN last.graph.nodes
              /\ last'.visited =
                   _execute_graph(last.graph,
                     _build_context(last'.frame, last.graph).parameters).trace]_vars

\* C26 witness: 'g1' has been registered again with the four-node graph
\* after an execute walked what a code bound to it named before
C26_Witness ==
  /\ last.op = "register_graph"
  /\ ~last.raised
  /\ last.graph = ErrorRouteGraph("g1")
  /\ \E c \in DOMAIN bindings :
       bindings[c].graph_id = "g1" /\ lookup(c) = ErrorRouteGraph("g1")
  /\ Len(execution_log) > 0
  /\ execution_log[1].node_count = 3

(***************************************************************************)
(* Claims about the scope of the execution context.                        *)
(***************************************************************************)
\* every registered handler is deterministic and keeps no state
StatelessHandlers ==
  \A op \in DOMAIN handlers : handlers[op] \in {"returns", "returns_scalar", "raises"}

\* two execute calls came to the same: both raised the same exception, or
\* both returned the same status, outputs and node trace
SameResult(x, y) ==
  /\ x.escaped = y.escaped
  /\ x.exc = y.exc
  /\ x.result.status = y.result.status
  /\ x.result.node_trace = y.result.node_trace
  /\ DOMAIN x.result.outputs = DOMAIN y.result.outputs
  /\ \A k \in DOMAIN x.result.outputs :
       PyEq(x.result.outputs[k], y.result.outputs[k])

C27_ExecuteReadsOnly ==
  [][last'.op = "execute" =>
       /\ graphs' = graphs
       /\ bindings' = bindings
       /\ revocations' = revocations
       /\ domain_certs' = domain_certs
       /\ authority_certs' = authority_certs
       /\ revoked_authorities' = revoked_authorities
       /\ handlers' = handlers
       /\ \/ execution_log' = execution_log
          \/ /\ Len(execution_log') = Len(execution_log) + 1
             /\ SubSeq(execution_log', 1, Len(execution_log)) = execution_log]_vars

\* C27 witness: an execute was rejected at stage 3 for a binding past its
\* window, with certificates, a binding and a graph in place
C27_Witness ==
  /\ last.op = "execute"
  /\ last.result.status = "rejected"
  /\ last.result.error.text = "Execution graph not found or revoked"
  /\ last.frame.glyph_code \in DOMAIN bindings
  /\ ~BindingIsValid(bindings[last.frame.glyph_code])
  /\ ~is_revoked(last.frame.glyph_code)
  /\ graphs # <<>>
  /\ domain_certs # <<>>
  /\ authority_certs # <<>>

(***************************************************************************)
(* Claims about the node trace.                                            *)
(***************************************************************************)
\* the targets a node declares: what it has under next, on_true, on_false
\* and on_error
DeclaredTargets(node) ==
  { node[k] : k \in {"next", "on_true", "on_false", "on_error"} } \ {Absent}

\* C29: the node trace of a success result is a path of the graph walked:
\* it starts with 'start', ends with an exit node, has no exit node before
\* its last element and at most max_iterations elements, and each element
\* after the first is a target the element before it declares.
C29_TraceIsPath ==
  (/\ last.op = "execute"
   /\ ~last.escaped
   /\ last.result.status = "success")
  => LET trace == last.result.node_trace
         nodes == WalkedGraph.nodes
     IN /\ Len(trace) >= 1
        /\ Len(trace) <= max_iterations
        /\ trace[1] = "start"
        /\ \A i \in 1..Len(trace) : trace[i] \in DOMAIN nodes
        /\ nodes[trace[Len(trace)]].type = "exit"
        /\ \A i \in 1..(Len(trace) - 1) : nodes[trace[i]].type # "exit"
        /\ \A i \in 1..(Len(trace) - 1) :
             trace[i + 1] \in DeclaredTargets(nodes[trace[i]])

(***************************************************************************)
(* Claims about the revocation of an authority.                            *)
(***************************************************************************)
\* the TrustVerifier's operations together with execute: certificates are
\* added and replaced, authorities revoked, and frames of both authorities
\* executed against a bound graph, while the clock runs
NextRevocation ==
  \/ \E cert \in DomainCertInputs : AddDomainCertificate(cert)
  \/ \E cert \in AuthorityCertInputs : AddAuthorityCertificate(cert)
  \/ \E a \in FrameAuthorities : RevokeAuthority(TrustDomain, a)
  \/ \E a \in FrameAuthorities, sig \in SignatureInputs : Verify(TrustDomain, a, sig)
  \/ RegisterGraph(ErrorRouteGraph("g1"))
  \/ BindGlyph(GlyphRangeLow, "g1", 1)
  \/ \E a \in FrameAuthorities :
       Execute(Frame(TrustDomain, a, GlyphRangeLow, <<>>))
  \/ Tick

SpecRevocation == Init /\ [][NextRevocation]_vars

\* C30: a revoked authority stays revoked and revocation comes first: no
\* step takes a pair out of the revoked set; for a revoked (domain,
\* authority) verify answers valid=False with 'Authority has been revoked'
\* whatever the certificates and the signature are; and an execute of a
\* frame that carries a revoked pair is rejected.
C30_RevocationPermanent ==
  /\ [](\A key \in revoked_authorities : \A sig \in SignatureInputs :
          /\ ~verify(key[1], key[2], sig).valid
          /\ verify(key[1], key[2], sig).reason.text = "Authority has been revoked")
  /\ []((/\ last.op = "verify"
         /\ <<last.domain, last.authority>> \in revoked_authorities)
        => /\ ~last.result.valid
           /\ last.result.reason.text = "Authority has been revoked")
  /\ []((/\ last.op = "execute"
         /\ <<last.frame.domain, last.frame.authority>> \in revoked_authorities)
        => /\ ~last.escaped
           /\ last.result.status = "rejected"
           /\ last.calls = <<>>)
  /\ [][revoked_authorities \subseteq revoked_authorities']_vars

\* C30 witness: an execute was rejected for the revocation alone: the
\* frame's authority is revoked while its certificate, the domain's
\* certificate and the binding would all pass
C30_Witness ==
  /\ last.op = "execute"
  /\ <<last.frame.domain, last.frame.authority>> \in revoked_authorities
  /\ last.result.status = "rejected"
  /\ last.result.error.text = "Trust verification failed"
  /\ StageBinding
  /\ StageGraph
  /\ FailingChecks(last.frame.domain, last.frame.authority,
                   bindings[last.frame.glyph_code].signature) = {1}

====
